---- MODULE Spec2Model ----
(***************************************************************************)
(* Driver-monitoring engine: the useDriverMonitoring hook (eye-closure     *)
(* state machine, PERCLOS window, fusion score, history, persistence       *)
(* scheduling) and the SimplifiedLiveDashboard alert effects built on it.  *)
(* Times are wall-clock milliseconds.  Real numbers are exact rationals    *)
(* [n |-> numerator, d |-> denominator > 0] in lowest terms.               *)
(***************************************************************************)
EXTENDS Integers, Sequences, FiniteSets, TLC

(* ------------------------------ rationals ------------------------------ *)

RECURSIVE GCD(_, _)
GCD(a, b) == IF b = 0 THEN a ELSE GCD(b, a % b)

IAbs(x) == IF x < 0 THEN -x ELSE x

LCM(a, b) == (a \div GCD(a, b)) * b

\* n/d in lowest terms (d > 0)
Rat(n, d) ==
  LET g == GCD(IAbs(n), d)
  IN  [n |-> n \div g, d |-> d \div g]

RInt(k) == [n |-> k, d |-> 1]

RAdd(a, b) ==
  LET l == LCM(a.d, b.d)
  IN  Rat(a.n * (l \div a.d) + b.n * (l \div b.d), l)

RNeg(a) == [n |-> -a.n, d |-> a.d]

RSub(a, b) == RAdd(a, RNeg(b))

RMul(a, b) ==
  LET g1 == GCD(IAbs(a.n), b.d)
      g2 == GCD(IAbs(b.n), a.d)
  IN  Rat((a.n \div g1) * (b.n \div g2), (a.d \div g2) * (b.d \div g1))

\* a / b for b > 0
RDiv(a, b) == RMul(a, [n |-> b.d, d |-> b.n])

RLt(a, b) ==
  LET l == LCM(a.d, b.d)
  IN  a.n * (l \div a.d) < b.n * (l \div b.d)

RLe(a, b) == ~RLt(b, a)

RAbs(a) == [n |-> IAbs(a.n), d |-> a.d]

RMin(a, b) == IF RLt(b, a) THEN b ELSE a

RMax(a, b) == IF RLt(a, b) THEN b ELSE a

(* -------------------------- program constants -------------------------- *)

calibrationDurationMs == 10000
PERCLOS_WINDOW_MS == 30000
CONTINUOUS_CLOSE_MS_ALERT == 500
LONG_BLINK_MS == 250
LONG_BLINK_MAX_MS == 500
HEAD_NOD_ANGLE_DEG == 7
HEAD_NOD_VEL_DEG_PER_S == 5
UPDATE_MS == 180
\* landmarks of a face-api.js 68-point detection (indices 0..67 are read)
LANDMARKS == 68
SAVE_INTERVAL_MS == 5000
BLINK_FLAG_MS == 300
MIN_ENVELOPE == 8
SAMPLE_INTERVAL_MS == 200
\* capacity of the envelope buffers of useSoundAnalysis
MAX_ENV == 512
SILENCE_SECONDS == 5
MIN_PEAKS == 3
MAX_INTERVAL_STD_MS == 500
MEAN_INTERVAL_MIN_MS == 200
MEAN_INTERVAL_MAX_MS == 2000
PEAKS_FULL == 6

PERCLOS_ALERT == Rat(12, 100)
YAWN_MAR_NORMALIZE == Rat(55, 100)
SOUND_SUPPORT_WEIGHT == Rat(25, 100)
SMOOTH_ALPHA == Rat(6, 10)
W_EYES == Rat(8, 10)
W_PERCLOS == Rat(5, 10)
W_MAR == Rat(35, 100)
W_HEAD == Rat(4, 10)
W_SOUND == SOUND_SUPPORT_WEIGHT
EAR_CLOSED_DEFAULT == Rat(26, 100)
EAR_OPEN_DEFAULT == Rat(30, 100)

\* change gates of the published values
EPS_EAR == Rat(5, 10000)
\* faulty variant: a ten times coarser change gate of the published score
EPS_SCORE_COARSE == Rat(5, 100)
EPS_SCORE == Rat(5, 1000)
EPS_PERCLOS == Rat(2, 1000)
EPS_PROGRESS == Rat(1, 100)

\* the dashboard's tuning (TUNE) and per-cause cooldowns
MAX_LOGS == 180
DROWSY_THRESHOLD == Rat(8, 10)
DROWSY_DEMO_THRESHOLD == Rat(6, 10)
PERCLOS_ALERT_DASH == Rat(25, 100)
PERCLOS_DEMO_ALERT == Rat(18, 100)
ALERT_DEBOUNCE == 10000
DEMO_ALERT_DEBOUNCE == 3000
SNORE_COOLDOWN == 15000
YAWN_COOLDOWN == 10000
EYES_COOLDOWN == 8000
YAWN_THRESHOLD == Rat(7, 10)
LOW_EAR == Rat(18, 100)

(* ------------------------------- bounds -------------------------------- *)

\* Date.now() when the component is constructed
Epoch == 100000
\* number of events (frames, control operations) explored
MaxSteps == 4
\* largest caller-supplied history maximum explored
MaxPoints == 3

(* ------------------------ pure steps of one tick ----------------------- *)

\* faulty variant: a closed eye also stays closed on a tick whose EAR equals the open
\* threshold
EyesCurrentlyClosedAtOpen(prevClosed, EAR, earClosed, earOpen) ==
  IF prevClosed THEN RLe(EAR, earOpen) ELSE RLt(EAR, earClosed)

\* hysteresis: closed stays closed while EAR < open threshold; open closes
\* when EAR < closed threshold
EyesCurrentlyClosed(prevClosed, EAR, earClosed, earOpen) ==
  IF prevClosed THEN RLt(EAR, earOpen) ELSE RLt(EAR, earClosed)

\* faulty variant: no upper limit on the length of a blink
IsLongBlinkNoMax(durationMs) ==
  durationMs >= LONG_BLINK_MS

\* faulty variant: a closure of exactly 500 ms still counts as a blink
IsLongBlinkInclusive(durationMs) ==
  durationMs >= LONG_BLINK_MS /\ durationMs <= LONG_BLINK_MAX_MS

\* a closed period that ends after durationMs counts as a blink
IsLongBlink(durationMs) ==
  durationMs >= LONG_BLINK_MS /\ durationMs < LONG_BLINK_MAX_MS

\* faulty variant: the sample that is exactly 30 s old is pruned too
RECURSIVE PruneBufferInclusive(_, _)
PruneBufferInclusive(buf, nowTs) ==
  IF Len(buf) > 0 /\ buf[1].ts <= nowTs - PERCLOS_WINDOW_MS
  THEN PruneBufferInclusive(Tail(buf), nowTs)
  ELSE buf

\* while (buf.length && buf[0].ts < nowTs - WINDOW) buf.shift()
RECURSIVE PruneBuffer(_, _)
PruneBuffer(buf, nowTs) ==
  IF Len(buf) > 0 /\ buf[1].ts < nowTs - PERCLOS_WINDOW_MS
  THEN PruneBuffer(Tail(buf), nowTs)
  ELSE buf

RECURSIVE ClosedSum(_)
ClosedSum(buf) ==
  IF Len(buf) = 0 THEN 0 ELSE buf[1].closed + ClosedSum(Tail(buf))

IMax(a, b) == IF a < b THEN b ELSE a

Perclos(buf) == Rat(ClosedSum(buf), IMax(1, Len(buf)))

ContinuousClosedMs(closed, nowTs, lastChange) ==
  IF closed THEN nowTs - lastChange ELSE 0

\* faulty variant: continuous close only after more than 500 ms
ContinuousCloseTriggeredLate(closed, nowTs, lastChange) ==
  ContinuousClosedMs(closed, nowTs, lastChange) > CONTINUOUS_CLOSE_MS_ALERT

ContinuousCloseTriggered(closed, nowTs, lastChange) ==
  ContinuousClosedMs(closed, nowTs, lastChange) >= CONTINUOUS_CLOSE_MS_ALERT

\* MAR_score = min(1, MAR / 0.55)
MarScore(MAR) == RMin(RInt(1), RDiv(MAR, YAWN_MAR_NORMALIZE))

\* smoothed pitch velocity (deg/s); lp is the lastPitchRef record
PitchVel(lp, pitchDeg, nowTs) ==
  IF lp.ts # -1 /\ nowTs - lp.ts > 0
  THEN LET dt == Rat(nowTs - lp.ts, 1000)
           rawVel == RDiv(RSub(pitchDeg, lp.pitch), dt)
       IN  RAdd(RMul(lp.vel, Rat(1, 2)), RMul(rawVel, Rat(1, 2)))
  ELSE RInt(0)

HeadNodDetected(pitchDeg, pitchVel) ==
  \/ /\ RLt(RInt(HEAD_NOD_ANGLE_DEG), pitchDeg)
     /\ RLt(RInt(HEAD_NOD_VEL_DEG_PER_S), RAbs(pitchVel))
  \/ /\ RLt(RInt(2 * HEAD_NOD_VEL_DEG_PER_S), RAbs(pitchVel))
     /\ RLt(Rat(HEAD_NOD_ANGLE_DEG, 2), RAbs(pitchDeg))

HeadComponent(pitchDeg, pitchVel) ==
  IF HeadNodDetected(pitchDeg, pitchVel)
  THEN RInt(1)
  ELSE RMin(RInt(1), RMax(RInt(0), RDiv(pitchDeg, RInt(30))))

RECURSIVE SumSeq(_)
SumSeq(s) ==
  IF Len(s) = 0 THEN RInt(0)
  ELSE IF Len(s) = 1 THEN RAdd(s[1], RInt(0))
  ELSE LET h == Len(s) \div 2
       IN  RAdd(SumSeq(SubSeq(s, 1, h)), SumSeq(SubSeq(s, h + 1, Len(s))))

\* peaks[i].t - peaks[i - 1].t
Intervals(peakTimes) == [i \in 1..(Len(peakTimes) - 1) |-> RInt(peakTimes[i + 1] - peakTimes[i])]

Mean(arr) == RDiv(SumSeq(arr), RInt(Len(arr)))

\* the square of std(arr): the mean squared deviation from the mean
Variance(arr) ==
  IF Len(arr) = 0 THEN RInt(0)
  ELSE Mean([i \in 1..Len(arr) |-> RMul(RSub(arr[i], Mean(arr)), RSub(arr[i], Mean(arr)))])

\* faulty variant: two peaks are enough
EvaluatePeriodicityTwoPeaks(peakTimes) ==
  /\ Len(peakTimes) >= 2
  /\ RLe(Variance(Intervals(peakTimes)), RInt(MAX_INTERVAL_STD_MS * MAX_INTERVAL_STD_MS))
  /\ RLe(RInt(MEAN_INTERVAL_MIN_MS), Mean(Intervals(peakTimes)))
  /\ RLe(Mean(Intervals(peakTimes)), RInt(MEAN_INTERVAL_MAX_MS))

\* evaluatePeriodicity(peaks, 3, 500).ok on the times of the accepted peaks;
\* stdI <= 500 is compared through the squares
EvaluatePeriodicity(peakTimes) ==
  /\ Len(peakTimes) >= MIN_PEAKS
  /\ RLe(Variance(Intervals(peakTimes)), RInt(MAX_INTERVAL_STD_MS * MAX_INTERVAL_STD_MS))
  /\ RLe(RInt(MEAN_INTERVAL_MIN_MS), Mean(Intervals(peakTimes)))
  /\ RLe(Mean(Intervals(peakTimes)), RInt(MEAN_INTERVAL_MAX_MS))

\* snd: the envelope seen by the tick (its length and the times of its accepted
\* peaks) and the published low-band energy ratio
SoundScore(snd) ==
  IF snd.envLen >= MIN_ENVELOPE
  THEN IF EvaluatePeriodicity(snd.peakTimes)
       THEN RMin(RInt(1), Rat(Len(snd.peakTimes), PEAKS_FULL))
       ELSE IF RLt(Rat(25, 100), snd.bandLow) THEN Rat(5, 10) ELSE RInt(0)
  ELSE IF RLt(Rat(25, 100), snd.bandLow) THEN Rat(4, 10) ELSE RInt(0)

DetectedSoundWarning(snd) ==
  IF snd.envLen >= MIN_ENVELOPE
  THEN EvaluatePeriodicity(snd.peakTimes) \/ RLt(Rat(25, 100), snd.bandLow)
  ELSE RLt(Rat(25, 100), snd.bandLow)

EyesInstant(continuousCloseTriggered, eyesCurrentlyClosed) ==
  IF continuousCloseTriggered THEN RInt(1)
  ELSE IF eyesCurrentlyClosed THEN Rat(9, 10) ELSE RInt(0)

PerclosComponent(perclos) == RMin(RInt(1), RDiv(perclos, PERCLOS_ALERT))

Clamp01(x) == RMax(RInt(0), RMin(RInt(1), x))

NewScoreUnsmoothed(eyesInstant, perclosComponent, marComponent, headComponent, soundComponent) ==
  Clamp01(RAdd(RAdd(RAdd(RAdd(RMul(W_EYES, eyesInstant),
                                RMul(W_PERCLOS, perclosComponent)),
                          RMul(W_MAR, marComponent)),
                    RMul(W_HEAD, headComponent)),
              RMul(W_SOUND, soundComponent)))

\* faulty variant: the new raw score weighs one tenth
EmaSlow(prevEma, raw) ==
  RAdd(RMul(prevEma, Rat(9, 10)), RMul(raw, Rat(1, 10)))

\* faulty variant: the new raw score weighs one half
EmaHalf(prevEma, raw) ==
  RAdd(RMul(prevEma, Rat(1, 2)), RMul(raw, Rat(1, 2)))

\* faulty variant: the smoothing weights swapped
EmaSwapped(prevEma, raw) ==
  RAdd(RMul(prevEma, SMOOTH_ALPHA), RMul(raw, RSub(RInt(1), SMOOTH_ALPHA)))

Ema(prevEma, raw) ==
  RAdd(RMul(prevEma, RSub(RInt(1), SMOOTH_ALPHA)), RMul(raw, SMOOTH_ALPHA))

IsDrowsy(ema) == RLt(Rat(1, 2), ema)

\* Array.prototype.slice(k): k < 0 counts from the end, k >= 0 from the start
Slice(s, k) ==
  LET start == IF k < 0 THEN IMax(Len(s) + k, 0) ELSE IF k > Len(s) THEN Len(s) ELSE k
  IN  SubSeq(s, start + 1, Len(s))

\* [...prev.slice(-maxPoints + 1), x]
PushHistory(prev, max, x) == Append(Slice(prev, -max + 1), x)

\* faulty variant: the closed threshold has no floor
CalibratedClosedNoFloor(samples) ==
  RMul(RDiv(SumSeq(samples), RInt(Len(samples))), Rat(6, 10))

\* thresholds derived by stopCalibration from the collected samples
CalibratedClosed(samples) ==
  RMax(Rat(12, 100), RMul(RDiv(SumSeq(samples), RInt(Len(samples))), Rat(6, 10)))

\* faulty variant: the open threshold is 0.75 of the mean, without the gap
CalibratedOpenNoGap(samples) ==
  RMul(RDiv(SumSeq(samples), RInt(Len(samples))), Rat(75, 100))

CalibratedOpen(samples) ==
  RMax(RAdd(CalibratedClosed(samples), Rat(4, 100)),
       RMul(RDiv(SumSeq(samples), RInt(Len(samples))), Rat(75, 100)))

(* -------------------------------- state -------------------------------- *)

VARIABLES
  \* configuration and environment
  now,                 \* Date.now() at the latest event
  maxPoints,           \* the caller-supplied history maximum
  driverId,            \* "" when no driver id is configured
  tornDown,            \* the component has been unmounted
  online,              \* navigator.onLine
  landmarksData,       \* the latest frame of the detector, <<>> before the first
  \* refs of useDriverMonitoring
  prevEyesClosed, lastEyeStateRef, percBufferRef, longBlinkCountRef,
  lastPitchRef, emaRef, mouthRef,
  calibratingRef, calibrationStartTsRef, calibrationSamplesRef,
  EAR_CLOSED_REF, EAR_OPEN_REF,
  lastUpdateRef, prevValuesRef,
  pendingSaveRef, saveTimeoutRef, saveAbortControllerRef,
  saveTimers,          \* due times of the armed debounce timers
  sends,               \* the calls of sendToServer that passed its guards
  blinkTimers,         \* due times of the pending setBlinkDetected(false) timers
  \* published state of useDriverMonitoring (the snapshot)
  status, drowsyScore, drowsyHistory, emotionHistory, calibrationProgress,
  blinkCount, blinkDetected, dominantEmotion, soundWarning, continuousClose,
  perclosState, ear, mar,
  \* SimplifiedLiveDashboard
  mounted, demoMode, alertAudioRef,
  prevSoundWarningRef, prevMarRef, prevEyesBadRef, prevDrowsyScoreRef,
  lastAlertRef, lastSnoreToastRef, lastYawnToastRef, lastEyesToastRef,
  toastTimers,         \* the 0 ms timers of safeToast not yet run: [cause, t, demo] of
                       \* each call, t the time of the call, oldest first
  toasts,              \* the toasts shown so far, in the order shown, each with the
                       \* time t of the safeToast call that scheduled it
  \* the microphone and the two useSoundAnalysis instances
  micPermission,       \* getUserMedia grants the capture
  ownIsRunning,        \* isRunning of the instance inside useDriverMonitoring
  micOn,               \* the dashboard's mic button state
  analyserRef,         \* the dashboard's instance has an analyser
  isRunning, isSilent, lastSilentRef,
  silenceStartRef,     \* -1 for null
  lastSampleTimeRef,
  pendingStarts,       \* start() calls that are awaiting getUserMedia (phase "device")
                       \* or ac.resume() (phase "resume", on the capture they opened):
                       \* [caller, stopped, phase, capture], stopped when stop() of
                       \* the instance has run since the call
  captures,            \* number of captures (stream and context) created so far
  mediaStreamRef,      \* the capture whose stream the ref holds, 0 for null
  audioContextRef,     \* the capture whose context the ref holds, 0 for null
  liveStreams,         \* the captures whose stream has live tracks
  liveContexts,        \* the captures whose audio context is not closed
  envelopeBufferRef, envelopeTimeRef,
  \* the tick effect
  effectCause,         \* what made the tick effect run last: a frame or an audio value
  thrown,              \* an error escaped the tick effect
  \* observation of the latest event
  last,                \* the locals of the latest trigger of the tick effect
  steps                \* number of events so far

envVars == <<now, maxPoints, driverId, tornDown, online, landmarksData>>

eyeRefs == <<prevEyesClosed, lastEyeStateRef, percBufferRef, longBlinkCountRef>>

calibRefs == <<calibratingRef, calibrationStartTsRef, calibrationSamplesRef,
               EAR_CLOSED_REF, EAR_OPEN_REF>>

fusionRefs == <<lastPitchRef, emaRef, mouthRef, lastUpdateRef, prevValuesRef>>

saveRefs == <<pendingSaveRef, saveTimeoutRef, saveAbortControllerRef, saveTimers,
             sends>>

published == <<status, drowsyScore, drowsyHistory, emotionHistory,
               calibrationProgress, blinkCount, blinkDetected, dominantEmotion,
               soundWarning, continuousClose, perclosState, ear, mar>>

\* the capture device and the envelope buffers of the dashboard's instance
deviceVars == <<pendingStarts, captures, mediaStreamRef, audioContextRef,
                liveStreams, liveContexts, envelopeBufferRef, envelopeTimeRef>>

soundVars == <<micPermission, ownIsRunning, micOn, analyserRef, isRunning, isSilent,
               lastSilentRef, silenceStartRef, lastSampleTimeRef, deviceVars>>

dashRefs == <<prevSoundWarningRef, prevMarRef, prevEyesBadRef, prevDrowsyScoreRef,
              lastAlertRef, lastSnoreToastRef, lastYawnToastRef, lastEyesToastRef,
              toastTimers, toasts>>

vars == <<envVars, eyeRefs, calibRefs, fusionRefs, saveRefs, blinkTimers,
          published, mounted, demoMode, alertAudioRef, dashRefs, soundVars,
          effectCause, thrown, last, steps>>

NoTick == [kind |-> "none"]

\* the state after construction (first render, before any effect has run),
\* without the answer the browser will give to the capture request
InitEngine(points, driver) ==
  /\ ownIsRunning = FALSE
  /\ micOn = FALSE
  /\ analyserRef = FALSE
  /\ isRunning = FALSE
  /\ isSilent = FALSE
  /\ lastSilentRef = FALSE
  /\ silenceStartRef = -1
  /\ lastSampleTimeRef = 0
  /\ pendingStarts = <<>>
  /\ captures = 0
  /\ mediaStreamRef = 0
  /\ audioContextRef = 0
  /\ liveStreams = {}
  /\ liveContexts = {}
  /\ envelopeBufferRef = <<>>
  /\ envelopeTimeRef = <<>>
  /\ effectCause = "none"
  /\ thrown = FALSE
  /\ now = Epoch
  /\ maxPoints = points
  /\ driverId = driver
  /\ tornDown = FALSE
  /\ online = TRUE
  /\ landmarksData = <<>>
  /\ prevEyesClosed = FALSE
  /\ lastEyeStateRef = [closed |-> FALSE, lastChangeTs |-> Epoch]
  /\ percBufferRef = <<>>
  /\ longBlinkCountRef = 0
  /\ lastPitchRef = [pitch |-> RInt(0), ts |-> -1, vel |-> RInt(0)]
  /\ emaRef = RInt(0)
  /\ mouthRef = RInt(0)
  /\ calibratingRef = FALSE
  /\ calibrationStartTsRef = -1
  /\ calibrationSamplesRef = <<>>
  /\ EAR_CLOSED_REF = EAR_CLOSED_DEFAULT
  /\ EAR_OPEN_REF = EAR_OPEN_DEFAULT
  /\ lastUpdateRef = 0
  /\ prevValuesRef = [drowsyScore |-> RInt(0), perclos |-> RInt(0),
                      continuousClose |-> FALSE, blinkCount |-> 0,
                      soundWarning |-> FALSE, dominantEmotion |-> ""]
  /\ pendingSaveRef = <<>>
  /\ saveTimeoutRef = -1
  /\ saveAbortControllerRef = 0
  /\ saveTimers = {}
  /\ sends = <<>>
  /\ blinkTimers = {}
  /\ status = "AWAKE"
  /\ drowsyScore = RInt(0)
  /\ drowsyHistory = <<>>
  /\ emotionHistory = <<>>
  /\ calibrationProgress = RInt(0)
  /\ blinkCount = 0
  /\ blinkDetected = FALSE
  /\ dominantEmotion = "neutral"
  /\ soundWarning = FALSE
  /\ continuousClose = FALSE
  /\ perclosState = RInt(0)
  /\ ear = RInt(0)
  /\ mar = RInt(0)
  /\ mounted = FALSE
  /\ demoMode = FALSE
  /\ alertAudioRef = FALSE
  /\ prevSoundWarningRef = FALSE
  /\ prevMarRef = RInt(0)
  /\ prevEyesBadRef = FALSE
  /\ prevDrowsyScoreRef = RInt(0)
  /\ lastAlertRef = 0
  /\ lastSnoreToastRef = 0
  /\ lastYawnToastRef = 0
  /\ lastEyesToastRef = 0
  /\ toastTimers = <<>>
  /\ toasts = <<>>
  /\ last = NoTick
  /\ steps = 0

\* the state after construction when the capture will be granted
InitWith(points, driver) ==
  /\ InitEngine(points, driver)
  /\ micPermission = TRUE

(* ----------------------------- persistence ----------------------------- *)

\* The payload is built from the values the effect closure captured at the
\* render that triggered it (the published state before this tick's updates),
\* except the mouth ref, which is read live.
PreparePayload(mouth, volume, nowTs) ==
  [driverId |-> driverId, drowsiness |-> drowsyScore, emotion |-> dominantEmotion,
   eyeAspectRatio |-> ear, mouthAspectRatio |-> mouth,
   blinkDetected |-> blinkDetected, speechVolume |-> volume, ts |-> nowTs]

\* the payload of the teardown flush: the cleanup closure is the one of the
\* first render, so it carries the initial published state; the mouth ref and
\* the clock are read live
FlushPayload(nowTs) ==
  [driverId |-> driverId, drowsiness |-> RInt(0), emotion |-> "neutral",
   eyeAspectRatio |-> RInt(0), mouthAspectRatio |-> mouthRef,
   blinkDetected |-> FALSE, speechVolume |-> RInt(0), ts |-> nowTs]

\* the scheduler's refs as one record, threaded through the calls of a handler
SaveState == [pending |-> pendingSaveRef, timer |-> saveTimeoutRef,
              armed |-> saveTimers,
              ctrl |-> saveAbortControllerRef, sends |-> sends]

\* faulty variant: the previous controller is never aborted
AbortNothing(ss, k) == ss

\* controller.abort(): the signal of send k is aborted; a request of k that is
\* in flight is cancelled
Abort(ss, k) ==
  IF k = 0 THEN ss ELSE [ss EXCEPT !.sends[k].aborted = TRUE]

\* faulty variant: the send starts although the network is reported offline
SendToServerIgnoringOffline(ss, payload, attempts, nowTs, clears) ==
  IF driverId = ""
  THEN ss
  ELSE LET aborted == Abort(ss, ss.ctrl)
           send == [payload |-> payload, attempts |-> attempts, i |-> 0,
                    phase |-> "fetch", aborted |-> FALSE, wait |-> 300,
                    due |-> -1, clears |-> clears, result |-> "none", how |-> "",
                    reqTs |-> <<nowTs>>, failTs |-> <<>>]
       IN  [aborted EXCEPT !.sends = Append(aborted.sends, send),
                           !.ctrl = Len(aborted.sends) + 1]

\* sendToServer up to its first await: the guards, the abort of the previous
\* controller and the first request put in flight.  clears: the caller sets
\* pendingSaveRef to null when the send resolves to true.
SendToServer(ss, payload, attempts, nowTs, clears) ==
  IF driverId = "" \/ ~online
  THEN ss
  ELSE LET aborted == Abort(ss, ss.ctrl)
           send == [payload |-> payload, attempts |-> attempts, i |-> 0,
                    phase |-> "fetch", aborted |-> FALSE, wait |-> 300,
                    due |-> -1, clears |-> clears, result |-> "none", how |-> "",
                    reqTs |-> <<nowTs>>, failTs |-> <<>>]
       IN  [aborted EXCEPT !.sends = Append(aborted.sends, send),
                           !.ctrl = Len(aborted.sends) + 1]

\* window.clearTimeout(saveTimeoutRef.current) when the ref is set
ClearSaveTimer(ss) ==
  IF ss.timer # -1 THEN [ss EXCEPT !.armed = @ \ {ss.timer}] ELSE ss

ScheduleSave(ss, immediate, payload, nowTs) ==
  IF driverId = ""
  THEN ss
  ELSE LET stored == [ClearSaveTimer(ss) EXCEPT !.pending = <<payload>>, !.timer = -1]
       IN  IF immediate
           THEN SendToServer(stored, payload, 3, nowTs, TRUE)
           ELSE [stored EXCEPT !.timer = nowTs + SAVE_INTERVAL_MS,
                               !.armed = @ \cup {nowTs + SAVE_INTERVAL_MS}]

\* the three save triggers that end a tick
TickSaves(ss, payload, nowTs, statusChanged, continuousCloseTriggered) ==
  LET s1 == ScheduleSave(ss, FALSE, payload, nowTs)
      s2 == IF statusChanged THEN ScheduleSave(s1, TRUE, payload, nowTs) ELSE s1
  IN  IF continuousCloseTriggered THEN ScheduleSave(s2, TRUE, payload, nowTs) ELSE s2

(* -------------------------------- timers ------------------------------- *)

\* the due times of the pending timers: setTimeout of the blink flag, of the
\* debounced save, of the backoff of a send and of safeToast
BackoffDues == {sends[k].due : k \in {j \in 1..Len(sends) : sends[j].phase = "wait"}}

ToastDues == {toastTimers[i].t : i \in DOMAIN toastTimers}

TimerDues == blinkTimers \cup saveTimers \cup BackoffDues \cup ToastDues

\* the timer due at t is the next to run: timers run in the order of their due
\* times, at their due time or any time later; frames, sound values,
\* responses and the unmount may come before a callback that is due
TimersInOrder(t) == \A due \in TimerDues : due >= t

\* the rejection of a cancelled request, or of the read of its body, is
\* delivered at the end of the task that cancelled it, before any other event
Idle ==
  \A k \in 1..Len(sends) : ~(sends[k].phase \in {"fetch", "body"} /\ sends[k].aborted)

(* ---------------------------- alert effects ---------------------------- *)

EyesBad(cc, perclos, earNow, demo) ==
  \/ cc
  \/ RLt(IF demo THEN PERCLOS_DEMO_ALERT ELSE PERCLOS_ALERT_DASH, perclos)
  \/ RLt(earNow, LOW_EAR)

DrowsyThreshold(demo) == IF demo THEN DROWSY_DEMO_THRESHOLD ELSE DROWSY_THRESHOLD

\* rising edge of the published score through the mode threshold
DrowsyFires(prev, score, demo) ==
  RLt(prev, DrowsyThreshold(demo)) /\ RLe(DrowsyThreshold(demo), score)

\* faulty variant: the rising edge alone fires, whatever the time since the last firing
EdgeFiresNoCooldown(prev, current, nowTs, lastFired, cooldown) ==
  ~prev /\ current

\* rising edge and cooldown of the sound, yawn and eyes effects
EdgeFires(prev, current, nowTs, lastFired, cooldown) ==
  ~prev /\ current /\ ~(nowTs - lastFired < cooldown)

Yawning(m) == RLe(YAWN_THRESHOLD, m)

\* The four alert effects, run after a render: each runs when one of its
\* dependencies changed (or on mount).  Primed variables are the rendered
\* snapshot; the effects run in declaration order.  An effect that fires
\* calls safeToast, which only starts a 0 ms timer (lines 54-61).
AlertEffects(mount) ==
  LET runDrowsy == alertAudioRef' /\ (mount \/ drowsyScore' # drowsyScore \/ demoMode' # demoMode)
      runSnore  == mount \/ soundWarning' # soundWarning
      runYawn   == mount \/ mar' # mar
      runEyes   == mount \/ continuousClose' # continuousClose
                         \/ perclosState' # perclosState \/ ear' # ear
                         \/ demoMode' # demoMode
      eyesBad   == EyesBad(continuousClose', perclosState', ear', demoMode')
      fDrowsy   == runDrowsy /\ DrowsyFires(prevDrowsyScoreRef, drowsyScore', demoMode')
      fSnore    == runSnore /\ EdgeFires(prevSoundWarningRef, soundWarning', now',
                                         lastSnoreToastRef, SNORE_COOLDOWN)
      fYawn     == runYawn /\ EdgeFires(Yawning(prevMarRef), Yawning(mar'), now',
                                        lastYawnToastRef, YAWN_COOLDOWN)
      fEyes     == runEyes /\ EdgeFires(prevEyesBadRef, eyesBad, now',
                                        lastEyesToastRef, EYES_COOLDOWN)
      T(c)      == <<[cause |-> c, t |-> now', demo |-> demoMode']>>
  IN  /\ prevDrowsyScoreRef' = IF runDrowsy THEN drowsyScore' ELSE prevDrowsyScoreRef
      /\ prevSoundWarningRef' = IF runSnore THEN soundWarning' ELSE prevSoundWarningRef
      /\ prevMarRef' = IF runYawn THEN mar' ELSE prevMarRef
      /\ prevEyesBadRef' = IF runEyes THEN eyesBad ELSE prevEyesBadRef
      /\ lastAlertRef' = IF fDrowsy THEN now' ELSE lastAlertRef
      /\ lastSnoreToastRef' = IF fSnore THEN now' ELSE lastSnoreToastRef
      /\ lastYawnToastRef' = IF fYawn THEN now' ELSE lastYawnToastRef
      /\ lastEyesToastRef' = IF fEyes THEN now' ELSE lastEyesToastRef
      /\ toastTimers' = toastTimers \o (IF fDrowsy THEN T("drowsy") ELSE <<>>)
                                    \o (IF fSnore THEN T("snore") ELSE <<>>)
                                    \o (IF fYawn THEN T("yawn") ELSE <<>>)
                                    \o (IF fEyes THEN T("eyes") ELSE <<>>)
      /\ toasts' = toasts

\* the 0 ms timer of the oldest safeToast call runs (lines 54-61): the toast
\* is shown, in a task after the effect that called safeToast, whether or not
\* the dashboard is still mounted
ToastTimerFire ==
  /\ toastTimers # <<>>
  /\ TimersInOrder(toastTimers[1].t)
  /\ toasts' = Append(toasts, toastTimers[1])
  /\ toastTimers' = Tail(toastTimers)
  /\ UNCHANGED <<envVars, eyeRefs, calibRefs, fusionRefs, saveRefs, blinkTimers,
                 published, mounted, demoMode, alertAudioRef,
                 prevSoundWarningRef, prevMarRef, prevEyesBadRef, prevDrowsyScoreRef,
                 lastAlertRef, lastSnoreToastRef, lastYawnToastRef, lastEyesToastRef,
                 soundVars, effectCause, thrown, last, steps>>

\* a toast is shown, after the rejections of the task before it
ToastShows == Idle /\ ToastTimerFire

(* ------------------------------- the tick ------------------------------ *)

\* setX(prev => |prev - v| > eps ? v : prev)
Gate(prev, v, eps) == IF RLt(eps, RAbs(RSub(prev, v))) THEN v ELSE prev

\* faulty variant: the session expires only after more than 10 s
CalibrationStepLate(EAR, nowTs) ==
  LET calActive == calibratingRef /\ calibrationStartTsRef # -1
      samples   == IF calActive THEN Append(calibrationSamplesRef, EAR)
                   ELSE calibrationSamplesRef
      elapsed   == nowTs - calibrationStartTsRef
      expire    == calActive /\ elapsed > calibrationDurationMs
  IN  [calActive |-> calActive, samples |-> samples, expire |-> expire,
       progress |-> RMin(RInt(1), Rat(elapsed, calibrationDurationMs)),
       EAR_CLOSED |-> IF expire THEN CalibratedClosed(samples) ELSE EAR_CLOSED_REF,
       EAR_OPEN |-> IF expire THEN CalibratedOpen(samples) ELSE EAR_OPEN_REF]

\* calibration sampling at the head of the tick (lines 312-323): the samples,
\* whether the session expires on this tick, and the thresholds the tick uses
CalibrationStep(EAR, nowTs) ==
  LET calActive == calibratingRef /\ calibrationStartTsRef # -1
      samples   == IF calActive THEN Append(calibrationSamplesRef, EAR)
                   ELSE calibrationSamplesRef
      elapsed   == nowTs - calibrationStartTsRef
      expire    == calActive /\ elapsed >= calibrationDurationMs
  IN  [calActive |-> calActive, samples |-> samples, expire |-> expire,
       progress |-> RMin(RInt(1), Rat(elapsed, calibrationDurationMs)),
       EAR_CLOSED |-> IF expire THEN CalibratedClosed(samples) ELSE EAR_CLOSED_REF,
       EAR_OPEN |-> IF expire THEN CalibratedOpen(samples) ELSE EAR_OPEN_REF]

\* eye state, blink classification, PERCLOS window and continuous close
\* (lines 325-376)
EyeStep(EAR, nowTs, EAR_CLOSED, EAR_OPEN) ==
  LET prevState  == lastEyeStateRef
      eyesCurrentlyClosed ==
        CHOOSE c \in {EyesCurrentlyClosed(prevEyesClosed, EAR, EAR_CLOSED, EAR_OPEN)} : TRUE
      transition == eyesCurrentlyClosed # prevState.closed
      durationMs == nowTs - prevState.lastChangeTs
      eyeState   == IF transition
                    THEN [closed |-> eyesCurrentlyClosed, lastChangeTs |-> nowTs]
                    ELSE prevState
      buffer     == CHOOSE b \in {PruneBuffer(Append(percBufferRef,
                                       [ts |-> nowTs,
                                        closed |-> IF eyesCurrentlyClosed THEN 1 ELSE 0]),
                                     nowTs)} : TRUE
  IN  [eyesCurrentlyClosed |-> eyesCurrentlyClosed, transition |-> transition,
       durationMs |-> durationMs,
       blink |-> transition /\ prevState.closed /\ IsLongBlink(durationMs),
       eyeState |-> eyeState, buffer |-> buffer, perclos |-> Perclos(buffer),
       continuousCloseTriggered |->
         ContinuousCloseTriggered(eyesCurrentlyClosed, nowTs, eyeState.lastChangeTs)]

\* mouth, head pose, sound and the fused score (lines 378-498)
FusionStep(f, nowTs, eyesCurrentlyClosed, continuousCloseTriggered, perclos) ==
  LET MAR_score  == CHOOSE m \in {MarScore(f.mar)} : TRUE
      pitchVel   == CHOOSE v \in {PitchVel(lastPitchRef, f.pitch, nowTs)} : TRUE
      head       == CHOOSE h \in {HeadComponent(f.pitch, pitchVel)} : TRUE
      soundScore == CHOOSE x \in {Clamp01(SoundScore(f.snd))} : TRUE
      raw        == CHOOSE r \in {NewScoreUnsmoothed(
                      EyesInstant(continuousCloseTriggered, eyesCurrentlyClosed),
                      PerclosComponent(perclos), MAR_score, head, soundScore)} : TRUE
  IN  [MAR_score |-> MAR_score, pitchVel |-> pitchVel, headComponent |-> head,
       soundComponent |-> soundScore,
       detectedSoundWarning |-> DetectedSoundWarning(f.snd),
       newScoreUnsmoothed |-> raw, ema |-> Ema(emaRef, raw)]

\* A trigger of the tick effect at time nowTs on frame f with the sound values
\* f.snd: the whole effect body (lines 293-566); the render of the new
\* snapshot and the alert effects follow it in Tick.
TickEffect(f, nowTs) ==
  \E cal \in {CalibrationStep(f.ear, nowTs)} :
  \E eye \in {EyeStep(f.ear, nowTs, cal.EAR_CLOSED, cal.EAR_OPEN)} :
  \E fus \in {FusionStep(f, nowTs, eye.eyesCurrentlyClosed,
                         eye.continuousCloseTriggered, eye.perclos)} :
  \E isDrowsy \in {IsDrowsy(fus.ema)} :
  \E pubScore \in {RLt(EPS_SCORE, RAbs(RSub(prevValuesRef.drowsyScore, fus.ema)))} :
  \E pubPerclos \in {RLt(EPS_PERCLOS, RAbs(RSub(prevValuesRef.perclos, eye.perclos)))} :
  LET EAR        == f.ear
      longBlinks == IF eye.blink THEN longBlinkCountRef + 1 ELSE longBlinkCountRef
      newStatus  == IF isDrowsy THEN "DROWSY" ELSE "AWAKE"
      statusChanged == newStatus # status
      payload    == PreparePayload(fus.MAR_score, f.snd.volume, nowTs)
      saved      == TickSaves(SaveState, payload, nowTs, statusChanged,
                              eye.continuousCloseTriggered)
  IN  /\ lastUpdateRef' = nowTs
      /\ ear' = Gate(ear, EAR, EPS_EAR)
      /\ calibrationSamplesRef' = cal.samples
      /\ calibratingRef' = IF cal.expire THEN FALSE ELSE calibratingRef
      /\ calibrationStartTsRef' = IF cal.expire THEN -1 ELSE calibrationStartTsRef
      /\ calibrationProgress' =
           IF cal.expire THEN RInt(1)
           ELSE IF cal.calActive
                THEN Gate(calibrationProgress, cal.progress, EPS_PROGRESS)
                ELSE calibrationProgress
      /\ EAR_CLOSED_REF' = cal.EAR_CLOSED
      /\ EAR_OPEN_REF' = cal.EAR_OPEN
      /\ prevEyesClosed' = eye.eyesCurrentlyClosed
      /\ lastEyeStateRef' = eye.eyeState
      /\ longBlinkCountRef' = longBlinks
      /\ blinkDetected' = IF eye.blink THEN TRUE
                          ELSE IF eye.transition /\ ~lastEyeStateRef.closed THEN FALSE
                          ELSE blinkDetected
      /\ blinkTimers' = IF eye.blink THEN blinkTimers \cup {nowTs + BLINK_FLAG_MS}
                        ELSE blinkTimers
      /\ percBufferRef' = eye.buffer
      /\ mar' = Gate(mar, fus.MAR_score, EPS_EAR)
      /\ mouthRef' = fus.MAR_score
      /\ lastPitchRef' = [pitch |-> f.pitch, ts |-> nowTs,
                          vel |-> IF lastPitchRef.ts # -1 /\ nowTs - lastPitchRef.ts > 0
                                  THEN fus.pitchVel ELSE lastPitchRef.vel]
      /\ emaRef' = fus.ema
      /\ drowsyScore' = IF pubScore THEN fus.ema ELSE drowsyScore
      /\ drowsyHistory' = PushHistory(drowsyHistory, maxPoints, IF isDrowsy THEN 1 ELSE 0)
      /\ perclosState' = IF pubPerclos THEN eye.perclos ELSE perclosState
      /\ continuousClose' =
           IF prevValuesRef.continuousClose # eye.continuousCloseTriggered
           THEN eye.continuousCloseTriggered ELSE continuousClose
      /\ emotionHistory' = PushHistory(emotionHistory, maxPoints, f.emotion)
      /\ dominantEmotion' = IF prevValuesRef.dominantEmotion # f.emotion
                            THEN f.emotion ELSE dominantEmotion
      /\ status' = newStatus
      /\ blinkCount' = IF prevValuesRef.blinkCount # longBlinks THEN longBlinks
                       ELSE IF eye.blink THEN blinkCount + 1 ELSE blinkCount
      /\ soundWarning' = IF prevValuesRef.soundWarning # fus.detectedSoundWarning
                         THEN fus.detectedSoundWarning ELSE soundWarning
      /\ prevValuesRef' =
           [drowsyScore |-> IF pubScore THEN fus.ema ELSE prevValuesRef.drowsyScore,
            perclos |-> IF pubPerclos THEN eye.perclos ELSE prevValuesRef.perclos,
            continuousClose |-> eye.continuousCloseTriggered,
            blinkCount |-> longBlinks,
            soundWarning |-> fus.detectedSoundWarning,
            dominantEmotion |-> f.emotion]
      /\ pendingSaveRef' = saved.pending
      /\ saveTimeoutRef' = saved.timer
      /\ saveTimers' = saved.armed
      /\ saveAbortControllerRef' = saved.ctrl
      /\ sends' = saved.sends
      /\ last' = [kind |-> "tick", nowTs |-> nowTs, EAR |-> EAR,
                  EAR_CLOSED |-> cal.EAR_CLOSED, EAR_OPEN |-> cal.EAR_OPEN,
                  wasClosed |-> prevEyesClosed,
                  eyesCurrentlyClosed |-> eye.eyesCurrentlyClosed,
                  transition |-> eye.transition, durationMs |-> eye.durationMs,
                  blink |-> eye.blink, perclos |-> eye.perclos,
                  continuousCloseTriggered |-> eye.continuousCloseTriggered,
                  MAR_score |-> fus.MAR_score,
                  headComponent |-> fus.headComponent,
                  soundComponent |-> fus.soundComponent,
                  newScoreUnsmoothed |-> fus.newScoreUnsmoothed,
                  prevEma |-> emaRef, ema |-> fus.ema,
                  isDrowsy |-> isDrowsy, statusChanged |-> statusChanged]

\* the early return of the effect: less than UPDATE_MS since the last tick
TickSkipped(nowTs) ==
  /\ UNCHANGED <<eyeRefs, calibRefs, fusionRefs, saveRefs, blinkTimers, published>>
  /\ last' = [kind |-> "skip", nowTs |-> nowTs]

NoSound == [envLen |-> 0, peakTimes |-> <<>>,
            bandLow |-> RInt(0), volume |-> RInt(0), silent |-> FALSE]

\* the sound values the effect reads come from the hook's own useSoundAnalysis
\* instance: while it is not running its envelope is empty and its published
\* values are the initial zeros
Heard(f) == IF ownIsRunning THEN f ELSE [f EXCEPT !.snd = NoSound]

\* faulty variant: the effect has no minimum interval
TickUnthrottled(f, dt) ==
  /\ mounted
  /\ now' = now + dt
  /\ landmarksData' = <<f>>
  /\ effectCause' = "frame"
  /\ UNCHANGED <<maxPoints, driverId, tornDown, online, mounted, demoMode, alertAudioRef,
                 soundVars, thrown>>
  /\ TickEffect(Heard(f), now')
  /\ AlertEffects(FALSE)

\* the detector delivers frame f, dt ms after the latest event
Tick(f, dt) ==
  /\ mounted
  /\ now' = now + dt
  /\ landmarksData' = <<f>>
  /\ effectCause' = "frame"
  /\ UNCHANGED <<maxPoints, driverId, tornDown, online, mounted, demoMode, alertAudioRef,
                 soundVars, thrown>>
  /\ IF now' - lastUpdateRef < UPDATE_MS THEN TickSkipped(now')
     ELSE TickEffect(Heard(f), now')
  /\ AlertEffects(FALSE)

\* the samples taken since the analyser was built, as [t, silent] in order
SampleLog == IF "log" \in DOMAIN last THEN last.log ELSE <<>>

\* the refs and the resources of the captures of the dashboard's instance
captureRefs == <<captures, mediaStreamRef, audioContextRef, liveStreams, liveContexts>>

\* the analyser and the sampling state of the dashboard's instance
samplerRefs == <<analyserRef, isRunning, isSilent, lastSilentRef, silenceStartRef,
                 lastSampleTimeRef, envelopeBufferRef, envelopeTimeRef>>

\* the callers of start() of the dashboard's instance: its own auto-start
\* effect, the dashboard's mount effect and handleMicToggle; "own" is the
\* auto-start effect of the instance inside useDriverMonitoring
DashCallers == {"auto", "mount", "toggle"}

\* start() of the dashboard's instance from the point where getUserMedia has
\* resolved to the test of the context's state (lines 302-308): the call stores
\* its new stream and its new context in the refs, over whatever they hold
CaptureOpened ==
  /\ captures' = captures + 1
  /\ mediaStreamRef' = captures + 1
  /\ audioContextRef' = captures + 1
  /\ liveStreams' = liveStreams \cup {captures + 1}
  /\ liveContexts' = liveContexts \cup {captures + 1}

\* the rest of start() (lines 318-350): the analyser is built on the call's own
\* context and stored, the sampling state is reset and isRunning is set
AnalyserBuilt ==
  /\ analyserRef' = TRUE
  /\ lastSampleTimeRef' = 0
  /\ silenceStartRef' = -1
  /\ envelopeBufferRef' = <<>>
  /\ envelopeTimeRef' = <<>>
  /\ lastSilentRef' = FALSE
  /\ isRunning' = TRUE
  /\ UNCHANGED isSilent

\* stop() of the dashboard's instance: the context and the stream the refs
\* hold are closed and stopped, the refs and the envelope are cleared; the
\* calls of the given callers that are still awaiting are not cancelled
SoundStoppedFor(callers) ==
  /\ liveContexts' = liveContexts \ {audioContextRef}
  /\ audioContextRef' = 0
  /\ liveStreams' = liveStreams \ {mediaStreamRef}
  /\ mediaStreamRef' = 0
  /\ analyserRef' = FALSE
  /\ isRunning' = FALSE
  /\ isSilent' = FALSE
  /\ envelopeBufferRef' = <<>>
  /\ envelopeTimeRef' = <<>>
  /\ lastSilentRef' = FALSE
  /\ pendingStarts' = [i \in DOMAIN pendingStarts |->
                         IF pendingStarts[i].caller \in callers
                         THEN [pendingStarts[i] EXCEPT !.stopped = TRUE]
                         ELSE pendingStarts[i]]
  /\ UNCHANGED <<silenceStartRef, lastSampleTimeRef, captures>>

\* stop() called by handleMicToggle
SoundStopped == SoundStoppedFor(DashCallers)

\* the cleanups of both useSoundAnalysis instances when the component unmounts
SoundTornDown == SoundStoppedFor(DashCallers \cup {"own"}) /\ ownIsRunning' = FALSE

\* The tick effect on a frame with fewer than 68 landmark points.  A slice past
\* the end of the array is short, so an eye or mouth point is undefined and
\* dist() throws a TypeError on it: with fewer than 48 points in computeEAR
\* (line 306 or 307), right after lastUpdateRef was written; with 48 to 67
\* points in the MAR expression (line 379), after the calibration sample and
\* the eye state machine have run.  Nothing catches the error, so React
\* unmounts the tree: the state updates queued by the effect are never
\* rendered and the cleanups of the hooks run.
TickEffectShort(f, nowTs) ==
  \E cal \in {CalibrationStep(f.ear, nowTs)} :
  \E eye \in {EyeStep(f.ear, nowTs, cal.EAR_CLOSED, cal.EAR_OPEN)} :
  /\ lastUpdateRef' = nowTs
  /\ IF f.points >= 48
     THEN /\ calibrationSamplesRef' = cal.samples
          /\ calibratingRef' = IF cal.expire THEN FALSE ELSE calibratingRef
          /\ calibrationStartTsRef' = IF cal.expire THEN -1 ELSE calibrationStartTsRef
          /\ EAR_CLOSED_REF' = cal.EAR_CLOSED
          /\ EAR_OPEN_REF' = cal.EAR_OPEN
          /\ prevEyesClosed' = eye.eyesCurrentlyClosed
          /\ lastEyeStateRef' = eye.eyeState
          /\ longBlinkCountRef' = IF eye.blink THEN longBlinkCountRef + 1
                                  ELSE longBlinkCountRef
          /\ blinkTimers' = IF eye.blink THEN blinkTimers \cup {nowTs + BLINK_FLAG_MS}
                            ELSE blinkTimers
          /\ percBufferRef' = eye.buffer
     ELSE UNCHANGED <<eyeRefs, calibRefs, blinkTimers>>
  /\ thrown' = TRUE
  /\ mounted' = FALSE
  /\ tornDown' = TRUE
  /\ LET cleared == ClearSaveTimer(SaveState)
         flushed == IF pendingSaveRef # <<>>
                    THEN SendToServer(cleared, FlushPayload(nowTs), 1, nowTs, FALSE)
                    ELSE cleared
         ended   == Abort(flushed, flushed.ctrl)
     IN  /\ pendingSaveRef' = ended.pending
         /\ saveTimeoutRef' = ended.timer
         /\ saveTimers' = ended.armed
         /\ saveAbortControllerRef' = ended.ctrl
         /\ sends' = ended.sends
  /\ SoundTornDown
  /\ UNCHANGED <<lastPitchRef, emaRef, mouthRef, prevValuesRef, published, dashRefs,
                 micPermission, micOn>>
  /\ last' = [kind |-> "throw", nowTs |-> nowTs, points |-> f.points]

\* the detector delivers a frame f with fewer than 68 points, dt ms after the
\* latest event
TickShort(f, dt) ==
  /\ mounted
  /\ f.points < LANDMARKS
  /\ now' = now + dt
  /\ landmarksData' = <<f>>
  /\ effectCause' = "frame"
  /\ UNCHANGED <<maxPoints, driverId, online, demoMode, alertAudioRef>>
  /\ IF now' - lastUpdateRef < UPDATE_MS
     THEN /\ TickSkipped(now')
          /\ UNCHANGED <<dashRefs, soundVars, thrown, mounted, tornDown>>
     ELSE TickEffectShort(f, now')

(* --------------------------- other operations -------------------------- *)

\* a call of start() up to its first await (lines 298-301): it returns at once
\* when the instance holds a context, otherwise it waits for getUserMedia
StartCalled(pending, caller) ==
  IF caller \in DashCallers /\ audioContextRef # 0 THEN pending
  ELSE Append(pending, [caller |-> caller, stopped |-> FALSE,
                        phase |-> "device", capture |-> 0])

\* first commit of the dashboard: the alert sound is created and every alert
\* effect runs once on the initial snapshot; the tick effect returns at once
\* because no frame has arrived.  Three effects call start() in this commit, in
\* the order of their declaration: the auto-start effect of the dashboard's
\* useSoundAnalysis instance, the auto-start effect of the instance inside
\* useDriverMonitoring, and the dashboard's mount effect, whose call passes the
\* guard of line 299 because the first call is still awaiting the device.
Mount ==
  /\ ~mounted /\ ~tornDown
  /\ mounted' = TRUE
  /\ alertAudioRef' = TRUE
  /\ pendingStarts' =
       StartCalled(Append(StartCalled(pendingStarts, "auto"),
                          [caller |-> "own", stopped |-> FALSE,
                           phase |-> "device", capture |-> 0]),
                   "mount")
  /\ UNCHANGED <<micPermission, ownIsRunning, micOn, captureRefs, samplerRefs,
                 effectCause, thrown>>
  /\ UNCHANGED <<envVars, eyeRefs, calibRefs, fusionRefs, saveRefs, blinkTimers,
                 published, demoMode, last, steps>>
  /\ AlertEffects(TRUE)

\* s without its element i
RemoveAt(s, i) ==
  [j \in 1..(Len(s) - 1) |-> IF j < i THEN s[j] ELSE s[j + 1]]

\* what the caller does when its call of start() of the dashboard's instance
\* has returned (ok) or thrown: the mount effect and handleMicToggle set micOn
\* after a successful start, and the mount effect then calls startCalibration
\* whatever the outcome (part_002 lines 129-141)
StartReturned(call, ok) ==
  /\ micOn' = IF ok /\ call.caller \in {"mount", "toggle"} THEN TRUE ELSE micOn
  /\ IF call.caller = "mount"
     THEN /\ calibrationSamplesRef' = <<>>
          /\ calibrationStartTsRef' = now'
          /\ calibratingRef' = TRUE
          /\ calibrationProgress' = RInt(0)
     ELSE UNCHANGED <<calibrationSamplesRef, calibrationStartTsRef,
                      calibratingRef, calibrationProgress>>

\* what a step of start() leaves alone
nonStartVars == <<maxPoints, driverId, tornDown, online, landmarksData, eyeRefs,
                  EAR_CLOSED_REF, EAR_OPEN_REF, fusionRefs, saveRefs, blinkTimers,
                  status, drowsyScore, drowsyHistory, emotionHistory, blinkCount,
                  blinkDetected, dominantEmotion, soundWarning, continuousClose,
                  perclosState, ear, mar, mounted, demoMode, alertAudioRef,
                  dashRefs, micPermission, ownIsRunning, effectCause, thrown>>

\* getUserMedia of the pending call i of the dashboard's instance settles, dt
\* ms after the latest event (lines 301-316).  A refused request makes the
\* call throw.  A granted one opens the capture; when the new context is
\* suspended the call awaits ac.resume(), otherwise it runs to its end and its
\* caller goes on.
StartResumes(i, suspended, dt) ==
  /\ i \in DOMAIN pendingStarts
  /\ pendingStarts[i].phase = "device"
  /\ pendingStarts[i].caller \in DashCallers
  /\ now' = now + dt
  /\ LET call  == pendingStarts[i]
         waits == micPermission /\ suspended
     IN  /\ pendingStarts' =
              IF waits
              THEN [pendingStarts EXCEPT ![i].phase = "resume",
                                         ![i].capture = captures + 1]
              ELSE RemoveAt(pendingStarts, i)
         /\ IF micPermission THEN CaptureOpened ELSE UNCHANGED captureRefs
         /\ IF micPermission /\ ~suspended THEN AnalyserBuilt
            ELSE UNCHANGED samplerRefs
         /\ IF waits
            THEN UNCHANGED <<micOn, calibrationSamplesRef,
                             calibrationStartTsRef, calibratingRef, calibrationProgress>>
            ELSE StartReturned(call, micPermission)
         /\ last' = [kind |-> IF waits THEN "device" ELSE "start",
                     caller |-> call.caller, stopped |-> call.stopped,
                     granted |-> micPermission,
                     log |-> IF micPermission /\ ~suspended THEN <<>> ELSE SampleLog]
  /\ UNCHANGED nonStartVars

\* ac.resume() of the pending call i of the dashboard's instance settles, dt
\* ms after the latest event (fulfilled, or rejected and ignored, lines
\* 310-316), and the call runs to its end (lines 318-350) on the context it
\* created, whether or not a stop() has closed that context in between; then
\* its caller goes on
ResumeSettles(i, dt) ==
  /\ i \in DOMAIN pendingStarts
  /\ pendingStarts[i].phase = "resume"
  /\ pendingStarts[i].caller \in DashCallers
  /\ now' = now + dt
  /\ LET call == pendingStarts[i]
     IN  /\ pendingStarts' = RemoveAt(pendingStarts, i)
         /\ AnalyserBuilt
         /\ StartReturned(call, TRUE)
         /\ last' = [kind |-> "start", caller |-> call.caller,
                     stopped |-> call.stopped, granted |-> TRUE, log |-> <<>>]
  /\ UNCHANGED captureRefs
  /\ UNCHANGED nonStartVars

\* start() of the instance inside useDriverMonitoring has run to its end and
\* its isRunning is true: the component renders again and the tick effect,
\* which lists isRunning among its dependencies (line 566), runs again on the
\* landmarks of the latest detection, with the initial sound values of the
\* instance
OwnRunning(call) ==
  /\ ownIsRunning' = TRUE
  /\ IF mounted /\ ~ownIsRunning /\ landmarksData # <<>>
     THEN /\ landmarksData' = <<[landmarksData[1] EXCEPT !.snd = NoSound]>>
          /\ effectCause' = "audio"
          /\ IF now' - lastUpdateRef < UPDATE_MS THEN TickSkipped(now')
             ELSE TickEffect(landmarksData'[1], now')
          /\ AlertEffects(FALSE)
     ELSE /\ UNCHANGED <<landmarksData, effectCause, eyeRefs, calibRefs, fusionRefs,
                         saveRefs, blinkTimers, published, dashRefs>>
          /\ last' = [kind |-> "start", caller |-> call.caller,
                      stopped |-> call.stopped, granted |-> TRUE, log |-> SampleLog]

\* what a step of start() of the instance inside useDriverMonitoring leaves alone
nonOwnVars == <<maxPoints, driverId, tornDown, online, mounted, demoMode,
                alertAudioRef, micPermission, micOn, captureRefs, samplerRefs, thrown>>

\* getUserMedia of the call of the instance inside useDriverMonitoring settles,
\* dt ms after the latest event: refused, granted with a suspended context
\* (the call awaits ac.resume()), or granted with a running one
OwnStartResumes(i, suspended, dt) ==
  /\ i \in DOMAIN pendingStarts
  /\ pendingStarts[i].phase = "device"
  /\ pendingStarts[i].caller = "own"
  /\ now' = now + dt
  /\ pendingStarts' = IF micPermission /\ suspended
                      THEN [pendingStarts EXCEPT ![i].phase = "resume"]
                      ELSE RemoveAt(pendingStarts, i)
  /\ UNCHANGED nonOwnVars
  /\ IF micPermission /\ ~suspended
     THEN OwnRunning(pendingStarts[i])
     ELSE /\ UNCHANGED <<ownIsRunning, landmarksData, effectCause, eyeRefs, calibRefs,
                         fusionRefs, saveRefs, blinkTimers, published, dashRefs>>
          /\ last' = [kind |-> IF micPermission THEN "device" ELSE "start",
                      caller |-> "own", stopped |-> pendingStarts[i].stopped,
                      granted |-> micPermission, log |-> SampleLog]

\* ac.resume() of the call of the instance inside useDriverMonitoring settles
OwnResumeSettles(i, dt) ==
  /\ i \in DOMAIN pendingStarts
  /\ pendingStarts[i].phase = "resume"
  /\ pendingStarts[i].caller = "own"
  /\ now' = now + dt
  /\ pendingStarts' = RemoveAt(pendingStarts, i)
  /\ UNCHANGED nonOwnVars
  /\ OwnRunning(pendingStarts[i])

\* no call of start() is awaiting the device or its context
StartsSettled == pendingStarts = <<>>

\* the device answers the oldest pending call of start() before any other
\* event, with a running context.  The specifications about the detection
\* tick and the saves schedule the answers of the mount's calls this way,
\* before the first frame; the answers interleaved with samples, clicks and
\* the teardown, and suspended contexts, are explored by SpecCapture, SpecMic,
\* SpecSilence and SpecEnvelope.
CaptureSettles ==
  /\ ~StartsSettled
  /\ UNCHANGED steps
  /\ \/ StartResumes(1, FALSE, 0)
     \/ OwnStartResumes(1, FALSE, 0)

\* the calls of start() of the two auto-start effects have been answered
AutoSettled ==
  \A i \in DOMAIN pendingStarts : pendingStarts[i].caller \in {"mount", "toggle"}

\* the device answers the calls of the two auto-start effects, the oldest
\* first, before any other event, with a running context; the calls of the
\* mount effect and of the mic button stay pending and are answered at any
\* later point
AutoSettles ==
  /\ ~AutoSettled
  /\ UNCHANGED steps
  /\ \/ StartResumes(1, FALSE, 0)
     \/ OwnStartResumes(1, FALSE, 0)

\* everything but the dashboard's useSoundAnalysis instance and the clock
nonSoundVars == <<maxPoints, driverId, tornDown, online, landmarksData, eyeRefs,
                  calibRefs, fusionRefs, saveRefs, blinkTimers, published, mounted,
                  demoMode, alertAudioRef, dashRefs, micPermission, ownIsRunning,
                  effectCause, thrown>>

\* performance.now(): milliseconds since the page was loaded
PerfNow(t) == t - Epoch

\* faulty variant: a full buffer drops its newest entry
PushEnvelopeDropNewest(buf, v) ==
  LET pushed == Append(buf, v)
  IN  IF Len(pushed) > MAX_ENV THEN buf ELSE pushed

\* push on one of the two envelope buffers, and shift when it exceeds MAX_ENV
PushEnvelope(buf, v) ==
  LET pushed == Append(buf, v)
  IN  IF Len(pushed) > MAX_ENV THEN Tail(pushed) ELSE pushed

\* sampleAudio of the dashboard's instance on an animation frame dt ms after
\* the latest event (lines 201-290); currentlySilent is the verdict of line 237
\* on the captured buffer and envVal the rounded low-band percentage of line
\* 248.  The published volume and low-band ratio of this instance are only
\* displayed.
SampleAudio(currentlySilent, envVal, dt) ==
  /\ analyserRef
  /\ now' = now + dt
  /\ IF PerfNow(now') - lastSampleTimeRef < SAMPLE_INTERVAL_MS
     THEN UNCHANGED <<lastSampleTimeRef, silenceStartRef, lastSilentRef, isSilent,
                      envelopeBufferRef, envelopeTimeRef, last>>
     ELSE /\ lastSampleTimeRef' = PerfNow(now')
          /\ last' = [kind |-> "sample",
                      log |-> Append(SampleLog, [t |-> PerfNow(now'), silent |-> currentlySilent])]
          /\ envelopeBufferRef' = PushEnvelope(envelopeBufferRef, envVal)
          /\ envelopeTimeRef' = PushEnvelope(envelopeTimeRef, now')
          /\ IF currentlySilent
             THEN /\ silenceStartRef' = IF silenceStartRef = -1 THEN PerfNow(now')
                                        ELSE silenceStartRef
                  /\ IF PerfNow(now') - silenceStartRef' >= SILENCE_SECONDS * 1000
                        /\ ~lastSilentRef
                     THEN lastSilentRef' = TRUE /\ isSilent' = TRUE
                     ELSE UNCHANGED <<lastSilentRef, isSilent>>
             ELSE /\ IF lastSilentRef
                     THEN lastSilentRef' = FALSE /\ isSilent' = FALSE
                     ELSE UNCHANGED <<lastSilentRef, isSilent>>
                  /\ silenceStartRef' = -1
  /\ UNCHANGED <<nonSoundVars, micOn, analyserRef, isRunning, pendingStarts, captures,
                 mediaStreamRef, audioContextRef, liveStreams, liveContexts>>

\* an animation frame, dt ms after the latest event and outside the sampling
\* interval, on which getFloatTimeDomainData throws (lines 218-223): the time
\* of the sample has been written and sampleAudio returns
SampleAudioThrows(dt) ==
  /\ analyserRef
  /\ PerfNow(now + dt) - lastSampleTimeRef >= SAMPLE_INTERVAL_MS
  /\ now' = now + dt
  /\ lastSampleTimeRef' = PerfNow(now')
  /\ UNCHANGED <<silenceStartRef, lastSilentRef, isSilent, envelopeBufferRef,
                 envelopeTimeRef, last>>
  /\ UNCHANGED <<nonSoundVars, micOn, analyserRef, isRunning, pendingStarts, captures,
                 mediaStreamRef, audioContextRef, liveStreams, liveContexts>>

\* handleMicToggle, dt ms after the latest event, up to its await: while the
\* mic is off it calls start(), which returns at once when the instance holds
\* a context (micOn is then set without waiting) and otherwise awaits
\* getUserMedia; while the mic is on it calls stop() and clears micOn
MicToggle(dt) ==
  /\ mounted
  /\ now' = now + dt
  /\ IF ~micOn
     THEN /\ pendingStarts' = StartCalled(pendingStarts, "toggle")
          /\ micOn' = (audioContextRef # 0)
          /\ UNCHANGED <<captureRefs, samplerRefs>>
     ELSE SoundStopped /\ micOn' = FALSE
  /\ last' = [kind |-> "mic", log |-> IF micOn THEN <<>> ELSE SampleLog]
  /\ UNCHANGED nonSoundVars

\* the mode toggle, dt ms after the latest event
ToggleDemo(dt) ==
  /\ UNCHANGED <<soundVars, effectCause, thrown>>
  /\ mounted
  /\ now' = now + dt
  /\ demoMode' = ~demoMode
  /\ UNCHANGED <<maxPoints, driverId, tornDown, online, landmarksData, eyeRefs, calibRefs,
                 fusionRefs, saveRefs, blinkTimers, published, mounted,
                 alertAudioRef, last>>
  /\ AlertEffects(FALSE)

\* the timer started by a blink fires: setBlinkDetected(false)
BlinkTimerFire ==
  /\ UNCHANGED <<soundVars, effectCause, thrown>>
  /\ blinkTimers # {}
  /\ LET due == CHOOSE t \in blinkTimers : \A u \in blinkTimers : t <= u
     IN  /\ TimersInOrder(due)
         /\ now' = IMax(now, due)
         /\ blinkTimers' = blinkTimers \ {due}
  /\ blinkDetected' = FALSE
  /\ UNCHANGED <<maxPoints, driverId, tornDown, online, landmarksData, eyeRefs, calibRefs,
                 fusionRefs, saveRefs, status, drowsyScore, drowsyHistory,
                 emotionHistory, calibrationProgress, blinkCount, dominantEmotion,
                 soundWarning, continuousClose, perclosState, ear, mar,
                 mounted, demoMode, alertAudioRef, dashRefs, last, steps>>

\* faulty variant: the samples of the earlier session are kept
StartCalibrationKeepsSamples(dt) ==
  /\ UNCHANGED <<soundVars, effectCause, thrown>>
  /\ mounted
  /\ now' = now + dt
  /\ calibrationSamplesRef' = calibrationSamplesRef
  /\ calibrationStartTsRef' = now'
  /\ calibratingRef' = TRUE
  /\ calibrationProgress' = RInt(0)
  /\ UNCHANGED <<maxPoints, driverId, tornDown, online, landmarksData, eyeRefs,
                 EAR_CLOSED_REF, EAR_OPEN_REF, fusionRefs, saveRefs, blinkTimers,
                 status, drowsyScore, drowsyHistory, emotionHistory, blinkCount,
                 blinkDetected, dominantEmotion, soundWarning, continuousClose,
                 perclosState, ear, mar, mounted, demoMode, alertAudioRef,
                 dashRefs, last>>

StartCalibration(dt) ==
  /\ UNCHANGED <<soundVars, effectCause, thrown>>
  /\ mounted
  /\ now' = now + dt
  /\ calibrationSamplesRef' = <<>>
  /\ calibrationStartTsRef' = now'
  /\ calibratingRef' = TRUE
  /\ calibrationProgress' = RInt(0)
  /\ UNCHANGED <<maxPoints, driverId, tornDown, online, landmarksData, eyeRefs,
                 EAR_CLOSED_REF, EAR_OPEN_REF, fusionRefs, saveRefs, blinkTimers,
                 status, drowsyScore, drowsyHistory, emotionHistory, blinkCount,
                 blinkDetected, dominantEmotion, soundWarning, continuousClose,
                 perclosState, ear, mar, mounted, demoMode, alertAudioRef,
                 dashRefs, last>>

\* faulty variant: a stop without samples returns before reporting completion
StopCalibrationReturnsEarly(dt) ==
  /\ UNCHANGED <<soundVars, effectCause, thrown>>
  /\ mounted
  /\ now' = now + dt
  /\ calibratingRef' = FALSE
  /\ calibrationStartTsRef' = -1
  /\ IF Len(calibrationSamplesRef) > 0
     THEN /\ EAR_CLOSED_REF' = CalibratedClosed(calibrationSamplesRef)
          /\ EAR_OPEN_REF' = CalibratedOpen(calibrationSamplesRef)
     ELSE UNCHANGED <<EAR_CLOSED_REF, EAR_OPEN_REF>>
  /\ calibrationProgress' = IF Len(calibrationSamplesRef) > 0 THEN RInt(1)
                            ELSE calibrationProgress
  /\ UNCHANGED <<maxPoints, driverId, tornDown, online, landmarksData, eyeRefs,
                 calibrationSamplesRef, fusionRefs, saveRefs, blinkTimers,
                 status, drowsyScore, drowsyHistory, emotionHistory, blinkCount,
                 blinkDetected, dominantEmotion, soundWarning, continuousClose,
                 perclosState, ear, mar, mounted, demoMode, alertAudioRef,
                 dashRefs, last>>

StopCalibration(dt) ==
  /\ UNCHANGED <<soundVars, effectCause, thrown>>
  /\ mounted
  /\ now' = now + dt
  /\ calibratingRef' = FALSE
  /\ calibrationStartTsRef' = -1
  /\ IF Len(calibrationSamplesRef) > 0
     THEN /\ EAR_CLOSED_REF' = CalibratedClosed(calibrationSamplesRef)
          /\ EAR_OPEN_REF' = CalibratedOpen(calibrationSamplesRef)
     ELSE UNCHANGED <<EAR_CLOSED_REF, EAR_OPEN_REF>>
  /\ calibrationProgress' = RInt(1)
  /\ UNCHANGED <<maxPoints, driverId, tornDown, online, landmarksData, eyeRefs,
                 calibrationSamplesRef, fusionRefs, saveRefs, blinkTimers,
                 status, drowsyScore, drowsyHistory, emotionHistory, blinkCount,
                 blinkDetected, dominantEmotion, soundWarning, continuousClose,
                 perclosState, ear, mar, mounted, demoMode, alertAudioRef,
                 dashRefs, last>>

\* the calibration button of the dashboard, pressed dt ms after the latest
\* event: it ends a session whose progress is strictly between 0 and 1 and
\* starts one otherwise
CalibrationButton(dt) ==
  IF RLt(RInt(0), calibrationProgress) /\ RLt(calibrationProgress, RInt(1))
  THEN StopCalibration(dt)
  ELSE StartCalibration(dt)

(* ------------------------------- inputs -------------------------------- *)

\* a face at rest with the given eye aspect ratio
EyeFrame(e) == [points |-> LANDMARKS, ear |-> e, mar |-> RInt(0), pitch |-> RInt(0),
                emotion |-> "neutral", snd |-> NoSound]

\* EAR below, between, at and above the default thresholds 0.26 / 0.30
EyeEars == {Rat(25, 100), Rat(28, 100), Rat(30, 100), Rat(32, 100)}

\* a trigger inside the minimum interval, the next frame, and a frame after
\* the closure window has run out
EyeDts == {100, 250, 30000}

(* --------------------- the eye-closure state machine ------------------- *)

\* an event that counts against the exploration bound
Counted == StartsSettled /\ steps < MaxSteps /\ steps' = steps + 1

Init == InitWith(MAX_LOGS, "")

TickEye ==
  /\ Counted
  /\ \E e \in EyeEars, dt \in EyeDts : Tick(EyeFrame(e), dt)

\* the driver presses the calibration button
Calibrate ==
  /\ Counted
  /\ CalibrationButton(200)

Next == Mount \/ CaptureSettles \/ TickEye \/ BlinkTimerFire \/ Calibrate \/ ToastShows

Spec == Init /\ [][Next]_vars

(* ------------------------- claims C1 to C4 (Spec) ---------------------- *)

\* a step in which the tick effect ran its body
ProcessedTick == lastUpdateRef' # lastUpdateRef

\* the EAR of the frame a processed tick worked on
FrameEar == landmarksData'[1].ear

\* the eye state changes only on ticks, and lastChangeTs is the time of the
\* tick of the latest open/closed transition
EyeStateTracksTransitions ==
  /\ lastEyeStateRef'.closed = prevEyesClosed'
  /\ IF prevEyesClosed' # prevEyesClosed
     THEN ProcessedTick /\ lastEyeStateRef'.lastChangeTs = now'
     ELSE lastEyeStateRef'.lastChangeTs = lastEyeStateRef.lastChangeTs

\* C1 as stated: on every processed tick a closed eye state stays closed unless
\* the tick's EAR is above earOpenThreshold, and an open eye state becomes
\* closed only when the tick's EAR is below earClosedThreshold.
C1_HysteresisAsStated ==
  [][ProcessedTick =>
       /\ (prevEyesClosed /\ RLe(FrameEar, EAR_OPEN_REF')) => prevEyesClosed'
       /\ (~prevEyesClosed /\ prevEyesClosed') => RLt(FrameEar, EAR_CLOSED_REF')]_vars

\* C1 amended: on every processed tick a closed eye state stays closed iff the
\* tick's EAR is strictly below earOpenThreshold (it opens when the EAR is at or
\* above it), and an open eye state becomes closed iff the tick's EAR is
\* strictly below earClosedThreshold; no other step changes the eye state.
C1_Hysteresis ==
  [][/\ ProcessedTick =>
          prevEyesClosed' = IF prevEyesClosed
                            THEN RLt(FrameEar, EAR_OPEN_REF')
                            ELSE RLt(FrameEar, EAR_CLOSED_REF')
     /\ ~ProcessedTick => prevEyesClosed' = prevEyesClosed]_vars

\* C1 witness: a closed eye opened on a tick whose EAR equals earOpenThreshold
C1_Witness ==
  /\ last.kind = "tick"
  /\ last.nowTs = lastUpdateRef
  /\ last.wasClosed
  /\ last.EAR = EAR_OPEN_REF
  /\ ~prevEyesClosed

\* C2: the blink counter changes only on a tick with a closed->open transition
\* whose closed period d (from the tick of the open->closed transition to this
\* tick) satisfies 250 <= d < 500, and then by exactly one; the published
\* counter follows it on the same tick.
C2_BlinkClassification ==
  [][/\ EyeStateTracksTransitions
     /\ LET d == now' - lastEyeStateRef.lastChangeTs
            counted == /\ ProcessedTick
                       /\ prevEyesClosed /\ ~prevEyesClosed'
                       /\ d >= 250 /\ d < 500
        IN  /\ longBlinkCountRef' = longBlinkCountRef + (IF counted THEN 1 ELSE 0)
            /\ blinkCount' = blinkCount + (IF counted THEN 1 ELSE 0)]_vars

\* C2 witness: a closure of exactly 250 ms has just been counted as the first blink
C2_Witness ==
  /\ last.kind = "tick"
  /\ last.nowTs = lastUpdateRef
  /\ last.wasClosed /\ ~prevEyesClosed
  /\ last.durationMs = 250
  /\ blinkCount = 1 /\ longBlinkCountRef = 1

\* C3: after every processed tick continuousClose is true iff the eyes are
\* closed on that tick and at least 500 ms have elapsed since the tick of the
\* latest open->closed transition; it is false whenever the eyes are open.
C3_ContinuousClose ==
  [][/\ EyeStateTracksTransitions
     /\ ProcessedTick =>
          /\ continuousClose' = (prevEyesClosed' /\ now' - lastEyeStateRef'.lastChangeTs >= 500)
          /\ ~prevEyesClosed' => ~continuousClose'
     /\ ~ProcessedTick => continuousClose' = continuousClose]_vars

\* C3 witness: continuous close raised exactly 500 ms after the eyes closed
C3_Witness ==
  /\ last.kind = "tick"
  /\ last.nowTs = now
  /\ prevEyesClosed
  /\ now - lastEyeStateRef.lastChangeTs = 500
  /\ continuousClose

InWindow(sample, nowTs) == sample.ts >= nowTs - 30000

RECURSIVE Retained(_, _)
Retained(buf, nowTs) ==
  IF Len(buf) = 0 THEN <<>>
  ELSE IF InWindow(buf[1], nowTs)
       THEN <<buf[1]>> \o Retained(Tail(buf), nowTs)
       ELSE Retained(Tail(buf), nowTs)

ClosedCount(buf) == Cardinality({i \in 1..Len(buf) : buf[i].closed = 1})

\* C4: after every processed tick at time now the closure buffer holds, in
\* arrival order, exactly the samples of the ticks with timestamp >= now - 30 s
\* (one sample per processed tick), and the PERCLOS value of the tick is the
\* number of retained closed samples over the number of retained samples; no
\* other step changes the buffer.
C4_PerclosWindow ==
  [][/\ ProcessedTick =>
          /\ percBufferRef' =
               Retained(Append(percBufferRef,
                               [ts |-> now', closed |-> IF prevEyesClosed' THEN 1 ELSE 0]),
                        now')
          /\ Len(percBufferRef') >= 1
          /\ last'.perclos.n * Len(percBufferRef') = last'.perclos.d * ClosedCount(percBufferRef')
     /\ ~ProcessedTick => percBufferRef' = percBufferRef]_vars

\* C4 witness: a tick pruned an older sample and kept the one exactly 30 s old
C4_Witness ==
  /\ last.kind = "tick"
  /\ last.nowTs = now
  /\ steps = 3
  /\ Len(percBufferRef) = 2
  /\ percBufferRef[1].ts = now - 30000

(* ------------------------- the fusion engine --------------------------- *)

\* rest frames delivered before the explored ones, so that the closure window
\* is long enough for a PERCLOS below PERCLOS_ALERT
WarmSamples == 8

RestFrame == EyeFrame(Rat(32, 100))

ClosedFrame == EyeFrame(Rat(25, 100))

\* open eyes and a slightly open mouth: MAR_score 0.04 and 0.36
MouthFrame(m) == [EyeFrame(Rat(32, 100)) EXCEPT !.mar = RMul(m, YAWN_MAR_NORMALIZE)]

\* head pitched 30 degrees, a periodic envelope with 4 accepted peaks
NodSnoreFrame ==
  [EyeFrame(Rat(32, 100)) EXCEPT
     !.pitch = RInt(30), !.emotion = "sad",
     !.snd = [envLen |-> 20, peakTimes |-> <<0, 500, 1020, 1500>>,
              bandLow |-> Rat(3, 10), volume |-> Rat(1, 2),
              silent |-> FALSE]]

\* a loud low band without periodicity on a short envelope
HumFrame ==
  [EyeFrame(Rat(32, 100)) EXCEPT
     !.pitch = RInt(6),
     !.snd = [envLen |-> 4, peakTimes |-> <<>>,
              bandLow |-> Rat(3, 10), volume |-> Rat(1, 2),
              silent |-> FALSE]]

FusionFrames == {ClosedFrame, MouthFrame(Rat(4, 100)), MouthFrame(Rat(36, 100)),
                 NodSnoreFrame, HumFrame}

Warmup ==
  /\ StartsSettled
  /\ Len(percBufferRef) < WarmSamples
  /\ steps = 0
  /\ UNCHANGED steps
  /\ Tick(RestFrame, 200)

TickFusion ==
  /\ Len(percBufferRef) >= WarmSamples
  /\ Counted
  /\ \E f \in FusionFrames : Tick(f, 200)

NextFusion == Mount \/ CaptureSettles \/ Warmup \/ TickFusion \/ BlinkTimerFire \/ ToastShows

SpecFusion == Init /\ [][NextFusion]_vars

\* the hook called with a maximum of its caller's choice (the maxPoints
\* parameter, line 42); the dashboard, the one caller in the repository,
\* passes MAX_LOGS
InitHistory == \E points \in 1..MaxPoints : InitWith(points, "")

SpecHistory == InitHistory /\ [][NextFusion]_vars

(* ------------- claims C5, C6 (SpecFusion) and C7 (SpecHistory) ---------- *)

\* the weighted sum of the claim, clamped to [0, 1]
C5_Raw(eyes, perclosPart, marPart, headPart, soundPart) ==
  LET sum == RAdd(RMul(Rat(80, 100), eyes),
             RAdd(RMul(Rat(50, 100), perclosPart),
             RAdd(RMul(Rat(35, 100), marPart),
             RAdd(RMul(Rat(40, 100), headPart),
                  RMul(Rat(25, 100), soundPart)))))
  IN  IF RLt(sum, RInt(0)) THEN RInt(0)
      ELSE IF RLt(RInt(1), sum) THEN RInt(1) ELSE sum

\* C5: on every processed tick the raw score is
\* clamp(0.8*eyes + 0.5*perclosComponent + 0.35*mar + 0.4*head + 0.25*sound, 0, 1)
\* with eyes = 1 under continuous close, 0.9 when closed but not yet continuous,
\* else 0, and perclosComponent = min(1, perclos / 0.12); the smoothed score
\* after the tick is 0.4*previous + 0.6*raw, and it starts at 0.
C5_FusionScore ==
  /\ emaRef = RInt(0)
  /\ [][IF ProcessedTick
        THEN LET eyes == IF continuousClose' THEN RInt(1)
                         ELSE IF prevEyesClosed' THEN Rat(9, 10) ELSE RInt(0)
                 ratio == Rat(ClosedCount(percBufferRef'), Len(percBufferRef'))
                 byAlert == RDiv(ratio, Rat(12, 100))
                 part == IF RLt(byAlert, RInt(1)) THEN byAlert ELSE RInt(1)
                 raw == C5_Raw(eyes, part, mouthRef', last'.headComponent,
                               last'.soundComponent)
             IN  /\ last'.newScoreUnsmoothed = raw
                 /\ emaRef' = RAdd(RMul(Rat(4, 10), emaRef), RMul(Rat(6, 10), raw))
        ELSE emaRef' = emaRef]_vars

\* C5 witness: a tick with a PERCLOS strictly between 0 and 0.12, an open
\* mouth and a raw score strictly between 0 and 1, smoothed from a non-zero score
C5_Witness ==
  /\ last.kind = "tick"
  /\ last.nowTs = lastUpdateRef
  /\ RLt(RInt(0), last.perclos) /\ RLt(last.perclos, Rat(12, 100))
  /\ RLt(RInt(0), last.MAR_score)
  /\ RLt(RInt(0), last.newScoreUnsmoothed) /\ RLt(last.newScoreUnsmoothed, RInt(1))
  /\ RLt(RInt(0), last.prevEma)
  /\ emaRef # last.newScoreUnsmoothed

\* C6 as stated: in every snapshot status is DROWSY iff the drowsyScore exposed
\* in the same snapshot is > 0.5.
C6_StatusFromExposedScore ==
  (status = "DROWSY") <=> RLt(Rat(1, 2), drowsyScore)

\* C6 amended: in every snapshot status is DROWSY iff the smoothed score of the
\* latest processed tick is > 0.5 (AWAKE otherwise), and the exposed drowsyScore
\* differs from that smoothed score by at most 0.005.
C6_StatusFromSmoothedScore ==
  /\ (status = "DROWSY") <=> RLt(Rat(1, 2), emaRef)
  /\ status \in {"DROWSY", "AWAKE"}
  /\ RLe(RAbs(RSub(drowsyScore, emaRef)), Rat(5, 1000))

\* C6 witness: status DROWSY while the exposed score, held back by the change
\* gate, is still below 0.5
C6_Witness ==
  /\ status = "DROWSY"
  /\ RLt(drowsyScore, Rat(1, 2))
  /\ RLt(Rat(1, 2), emaRef)
  /\ drowsyScore # emaRef

\* C7: for every caller-supplied maxPoints >= 1 the drowsiness history never
\* holds more than maxPoints entries.
C7_HistoryBounded ==
  maxPoints >= 1 => Len(drowsyHistory) <= maxPoints


(* --------------------------- the alert effects ------------------------- *)

\* eyes shut with an EAR below LOW_EAR
ShutFrame == EyeFrame(Rat(10, 100))

\* a wide open mouth: MAR_score 0.8
YawnFrame == MouthFrame(Rat(80, 100))

\* a periodic sound envelope with 4 accepted peaks
SnoreFrame ==
  [EyeFrame(Rat(32, 100)) EXCEPT
     !.snd = [envLen |-> 20, peakTimes |-> <<0, 500, 1020, 1500>>,
              bandLow |-> Rat(3, 10), volume |-> Rat(1, 2),
              silent |-> FALSE]]

AlertFrames == {ShutFrame, YawnFrame, SnoreFrame}

\* the next frame, or 8 s and 15 s after the frame before the latest one
AlertDts == {200, 7800, 14800}

TickAlerts ==
  /\ Len(percBufferRef) >= WarmSamples
  /\ Counted
  /\ \E f \in AlertFrames, dt \in AlertDts : Tick(f, dt)

Toggle ==
  /\ Len(percBufferRef) >= WarmSamples
  /\ Counted
  /\ ToggleDemo(200)

NextAlerts == Mount \/ CaptureSettles \/ Warmup \/ TickAlerts \/ Toggle \/ BlinkTimerFire \/ ToastShows

SpecAlerts == Init /\ [][NextAlerts]_vars

(* -------------------- claims C8 to C10 (SpecAlerts) -------------------- *)

\* the alerts fired so far, shown or still waiting for their 0 ms timer, in
\* firing order, each with the time of the evaluation that fired it
Fired == toasts \o toastTimers

\* C8: two drowsiness alerts are never fired closer together than the score
\* cooldown of the mode (10 s normal, 3 s demo).
C8_ScoreAlertCooldown ==
  \A i, j \in 1..Len(Fired) :
    (i < j /\ Fired[i].cause = "drowsy" /\ Fired[j].cause = "drowsy")
      => Fired[j].t - Fired[i].t >=
           (IF Fired[j].demo THEN DEMO_ALERT_DEBOUNCE ELSE ALERT_DEBOUNCE)


\* an alert of cause c fires in this step: its effect calls safeToast
FiredIn(c) ==
  \E i \in (Len(toastTimers) + 1)..Len(toastTimers') : toastTimers'[i].cause = c

\* every earlier firing of cause c lies at least cooldown ms back
CooldownElapsed(c, cooldown) ==
  \A i \in 1..Len(Fired) :
    Fired[i].cause = c => now' - Fired[i].t >= cooldown

\* the effect of a cause is evaluated on mount and whenever one of the values
\* it depends on changed
SnoreEvaluated == mounted' /\ (~mounted \/ soundWarning' # soundWarning)

YawnEvaluated == mounted' /\ (~mounted \/ mar' # mar)

EyesEvaluated ==
  mounted' /\ (~mounted \/ continuousClose' # continuousClose
                        \/ perclosState' # perclosState
                        \/ ear' # ear \/ demoMode' # demoMode)

\* the eyes condition of the rendered snapshot
EyesCondition ==
  \/ continuousClose'
  \/ RLt(IF demoMode' THEN Rat(18, 100) ELSE Rat(25, 100), perclosState')
  \/ RLt(ear', Rat(18, 100))

\* firings of one cause are at least cooldown ms apart and never share a step
Spaced(c, cooldown) ==
  \A i, j \in 1..Len(Fired) :
    (i < j /\ Fired[i].cause = c /\ Fired[j].cause = c)
      => Fired[j].t - Fired[i].t >= cooldown

\* C9: for the sound, yawn and eyes causes an alert fires at an evaluation
\* (the effect calls safeToast) iff the condition was false at the previous
\* evaluation, is true at this one and at least the cooldown of the cause
\* (15 s, 10 s, 8 s) has elapsed since the cause last fired; two firings of
\* one cause are never closer than its cooldown.  The toast of a firing is
\* shown by the 0 ms timer of safeToast in a later task: the toasts are shown
\* in firing order, each once, and nothing else is shown.
C9_EdgeAndCooldown ==
  /\ [](Spaced("snore", 15000) /\ Spaced("yawn", 10000) /\ Spaced("eyes", 8000))
  /\ [][Fired' # Fired =>
          /\ toasts' = toasts
          /\ \E i \in 1..4 : SubSeq(Fired', 1, Len(Fired')  - i) = Fired]_vars
  /\ [][/\ FiredIn("snore") <=>
             (SnoreEvaluated /\ ~prevSoundWarningRef /\ soundWarning'
                /\ CooldownElapsed("snore", 15000))
        /\ FiredIn("yawn") <=>
             (YawnEvaluated /\ RLt(prevMarRef, Rat(7, 10)) /\ RLe(Rat(7, 10), mar')
                /\ CooldownElapsed("yawn", 10000))
        /\ FiredIn("eyes") <=>
             (EyesEvaluated /\ ~prevEyesBadRef /\ EyesCondition
                /\ CooldownElapsed("eyes", 8000))]_vars

\* C9 witness: the toast of a second snore alert, fired exactly 15 s after the
\* first, has been shown after a frame with shut eyes whose eyes alert was
\* held back by the eyes cooldown, and another alert fired since then is
\* still waiting for its timer
C9_Witness ==
  /\ toastTimers # <<>>
  /\ \E i, j \in 1..Len(toasts) :
       /\ i < j
       /\ toasts[i].cause = "snore" /\ toasts[j].cause = "snore"
       /\ toasts[j].t - toasts[i].t = SNORE_COOLDOWN
  /\ ClosedCount(percBufferRef) > 0
  /\ \A i \in 1..Len(toasts) : toasts[i].cause = "eyes" => toasts[i].t = Epoch

\* C10: no alert of any cause fires before the first frame has been processed.
C10_NoAlertBeforeFirstFrame ==
  lastUpdateRef = 0 => Fired = <<>>


(* ------------------------ persistence operations ----------------------- *)

\* the refs of the scheduler after a handler
StoreSaves(ss) ==
  /\ pendingSaveRef' = ss.pending
  /\ saveTimeoutRef' = ss.timer
  /\ saveTimers' = ss.armed
  /\ saveAbortControllerRef' = ss.ctrl
  /\ sends' = ss.sends

\* what the scheduler and the network never touch
nonSaveVars == <<maxPoints, driverId, landmarksData, eyeRefs, calibRefs, fusionRefs,
                 blinkTimers, published, demoMode, alertAudioRef, dashRefs, last>>

\* the debounce timer fires: the callback of scheduleSave(false); the ref keeps
\* the id of the fired timer
SaveTimerFire ==
  /\ UNCHANGED <<soundVars, effectCause, thrown>>
  /\ \E due \in saveTimers :
       /\ TimersInOrder(due)
       /\ now' = IMax(now, due)
       /\ LET fired == [SaveState EXCEPT !.armed = @ \ {due}]
          IN  StoreSaves(IF pendingSaveRef = <<>> THEN fired
                         ELSE SendToServer(fired, pendingSaveRef[1], 3, now', TRUE))
  /\ UNCHANGED <<nonSaveVars, tornDown, online, mounted>>

\* the request of send k gets a success response dt ms after the latest event:
\* sendToServer returns true and its caller clears the pending snapshot
FetchOk(k, dt) ==
  /\ UNCHANGED <<soundVars, effectCause, thrown>>
  /\ sends[k].phase = "fetch" /\ ~sends[k].aborted
  /\ now' = now + dt
  /\ sends' = [sends EXCEPT ![k].phase = "done", ![k].result = "ok"]
  /\ pendingSaveRef' = IF sends[k].clears THEN <<>> ELSE pendingSaveRef
  /\ UNCHANGED <<nonSaveVars, tornDown, online, mounted,
                 saveTimeoutRef, saveTimers, saveAbortControllerRef>>

\* the request of send k fails, dt ms after the latest event.  how = "error":
\* fetch rejects with a network error and the send waits before its next turn
\* of the loop.  how = "status": fetch resolves to a non-success response and
\* the send awaits the text of its body (line 242).
FetchFails(k, dt, how) ==
  /\ UNCHANGED <<soundVars, effectCause, thrown>>
  /\ sends[k].phase = "fetch" /\ ~sends[k].aborted
  /\ now' = now + dt
  /\ sends' = IF how = "status"
              THEN [sends EXCEPT ![k].phase = "body", ![k].how = how]
              ELSE [sends EXCEPT ![k].phase = "wait", ![k].due = now' + sends[k].wait,
                                 ![k].failTs = Append(@, now'), ![k].how = how]
  /\ UNCHANGED <<nonSaveVars, tornDown, online, mounted, pendingSaveRef,
                 saveTimeoutRef, saveTimers, saveAbortControllerRef>>

\* the body of a non-success response of send k is read while its controller
\* is aborted: the abort errors the body, res.text() rejects in the task of
\* the abort, the catch of line 242 turns that into "" and the send waits
\* before its next turn of the loop, from the time of the abort
BodyAborted(k) ==
  /\ UNCHANGED <<soundVars, effectCause, thrown>>
  /\ sends[k].phase = "body" /\ sends[k].aborted
  /\ sends' = [sends EXCEPT ![k].phase = "wait", ![k].due = now + sends[k].wait,
                            ![k].failTs = Append(@, now)]
  /\ UNCHANGED <<now, nonSaveVars, tornDown, online, mounted, pendingSaveRef,
                 saveTimeoutRef, saveTimers, saveAbortControllerRef>>

\* res.text() of the non-success response of send k resolves with the body,
\* dt ms after the latest event: the send now waits before its next turn of
\* the loop
BodySettles(k, dt) ==
  /\ UNCHANGED <<soundVars, effectCause, thrown>>
  /\ sends[k].phase = "body" /\ ~sends[k].aborted
  /\ now' = now + dt
  /\ sends' = [sends EXCEPT ![k].phase = "wait", ![k].due = now' + sends[k].wait,
                            ![k].failTs = Append(@, now')]
  /\ UNCHANGED <<nonSaveVars, tornDown, online, mounted, pendingSaveRef,
                 saveTimeoutRef, saveTimers, saveAbortControllerRef>>

\* faulty variant: AbortError is handled like any other error, the loop goes on
FetchAbortedRetries(k) ==
  /\ UNCHANGED <<soundVars, effectCause, thrown>>
  /\ sends[k].phase = "fetch" /\ sends[k].aborted
  /\ sends' = [sends EXCEPT ![k].phase = "wait", ![k].due = now + sends[k].wait,
                            ![k].failTs = Append(@, now), ![k].how = "error"]
  /\ UNCHANGED <<now, nonSaveVars, tornDown, online, mounted, pendingSaveRef,
                 saveTimeoutRef, saveTimers, saveAbortControllerRef>>

\* the cancelled request of send k rejects with AbortError: return false
FetchAborted(k) ==
  /\ UNCHANGED <<soundVars, effectCause, thrown>>
  /\ sends[k].phase = "fetch" /\ sends[k].aborted
  /\ sends' = [sends EXCEPT ![k].phase = "done", ![k].result = "aborted"]
  /\ UNCHANGED <<now, nonSaveVars, tornDown, online, mounted, pendingSaveRef,
                 saveTimeoutRef, saveTimers, saveAbortControllerRef>>

\* faulty variant: the retry after the wait does not look at the abort signal
BackoffFireIgnoringAbort(k) ==
  /\ UNCHANGED <<soundVars, effectCause, thrown>>
  /\ sends[k].phase = "wait"
  /\ TimersInOrder(sends[k].due)
  /\ now' = IMax(now, sends[k].due)
  /\ LET s == sends[k]
         turn == [s EXCEPT !.i = s.i + 1, !.wait = 2 * s.wait, !.due = -1,
                          !.how = ""]
     IN  sends' = [sends EXCEPT ![k] =
           IF turn.i < s.attempts
           THEN IF FALSE
                THEN [turn EXCEPT !.phase = "done", !.result = "aborted"]
                ELSE [turn EXCEPT !.phase = "fetch", !.reqTs = Append(@, now')]
           ELSE [turn EXCEPT !.phase = "done", !.result = "failed"]]
  /\ UNCHANGED <<nonSaveVars, tornDown, online, mounted, pendingSaveRef,
                 saveTimeoutRef, saveTimers, saveAbortControllerRef>>

\* faulty variant: the wait is not doubled between attempts
BackoffFireFixedWait(k) ==
  /\ UNCHANGED <<soundVars, effectCause, thrown>>
  /\ sends[k].phase = "wait"
  /\ TimersInOrder(sends[k].due)
  /\ now' = IMax(now, sends[k].due)
  /\ LET s == sends[k]
         turn == [s EXCEPT !.i = s.i + 1, !.due = -1,
                          !.how = ""]
     IN  sends' = [sends EXCEPT ![k] =
           IF turn.i < s.attempts
           THEN IF s.aborted
                THEN [turn EXCEPT !.phase = "done", !.result = "aborted"]
                ELSE [turn EXCEPT !.phase = "fetch", !.reqTs = Append(@, now')]
           ELSE [turn EXCEPT !.phase = "done", !.result = "failed"]]
  /\ UNCHANGED <<nonSaveVars, tornDown, online, mounted, pendingSaveRef,
                 saveTimeoutRef, saveTimers, saveAbortControllerRef>>

\* the backoff timer of send k fires: wait doubles and the loop goes on; a
\* fetch on an aborted signal rejects at once without a request
BackoffFire(k) ==
  /\ UNCHANGED <<soundVars, effectCause, thrown>>
  /\ sends[k].phase = "wait"
  /\ TimersInOrder(sends[k].due)
  /\ now' = IMax(now, sends[k].due)
  /\ LET s == sends[k]
         turn == [s EXCEPT !.i = s.i + 1, !.wait = 2 * s.wait, !.due = -1,
                          !.how = ""]
     IN  sends' = [sends EXCEPT ![k] =
           IF turn.i < s.attempts
           THEN IF s.aborted
                THEN [turn EXCEPT !.phase = "done", !.result = "aborted"]
                ELSE [turn EXCEPT !.phase = "fetch", !.reqTs = Append(@, now')]
           ELSE [turn EXCEPT !.phase = "done", !.result = "failed"]]
  /\ UNCHANGED <<nonSaveVars, tornDown, online, mounted, pendingSaveRef,
                 saveTimeoutRef, saveTimers, saveAbortControllerRef>>

\* the cleanup of the hook when the component unmounts, dt ms after the latest
\* event: clear the debounce timer, flush when a snapshot is pending, abort the
\* current controller
Unmount(dt) ==
  /\ mounted
  /\ now' = now + dt
  /\ mounted' = FALSE
  /\ tornDown' = TRUE
  /\ LET cleared == ClearSaveTimer(SaveState)
         flushed == IF pendingSaveRef # <<>>
                    THEN SendToServer(cleared, FlushPayload(now'), 1, now', FALSE)
                    ELSE cleared
     IN  StoreSaves(Abort(flushed, flushed.ctrl))
  /\ SoundTornDown
  /\ UNCHANGED <<nonSaveVars, online, micPermission, micOn, effectCause, thrown>>

\* the browser reports the network down or up
SetOnline(b) ==
  /\ UNCHANGED <<soundVars, effectCause, thrown>>
  /\ online # b
  /\ online' = b
  /\ UNCHANGED <<now, nonSaveVars, tornDown, mounted, saveRefs>>

(* ------------------------ the persistence scheduler -------------------- *)

NetDelay == 40

\* a rest frame 200 ms and a frame with closed eyes 500 ms after the latest
\* event
PersistTicks == {<<RestFrame, 200>>, <<ClosedFrame, 500>>}

\* the number of events explored after the mount
MaxEvents == 7

InitPersist == InitWith(MAX_LOGS, "driver-1")

\* an event or a timer callback, counted
Event == Idle /\ StartsSettled /\ steps < MaxEvents /\ steps' = steps + 1

TickPersist ==
  /\ Event
  /\ \E t \in PersistTicks : Tick(t[1], t[2])

Rejection ==
  /\ UNCHANGED steps
  /\ \E k \in 1..Len(sends) : FetchAborted(k) \/ BodyAborted(k)

Response ==
  /\ Event
  /\ \E k \in 1..Len(sends) :
       \/ FetchOk(k, NetDelay)
       \/ \E how \in {"status", "error"} : FetchFails(k, NetDelay, how)

\* the body of a non-success response has been read
Body == Event /\ \E k \in 1..Len(sends) : BodySettles(k, NetDelay)

Backoff == Event /\ \E k \in 1..Len(sends) : BackoffFire(k)

DebounceFire == Event /\ SaveTimerFire

BlinkFlagFire == Idle /\ BlinkTimerFire

Teardown == Event /\ Unmount(200)

\* the network goes down
Connectivity == Event /\ SetOnline(FALSE)

NextPersist ==
  \/ Mount \/ CaptureSettles \/ TickPersist \/ BlinkFlagFire \/ Rejection
  \/ DebounceFire \/ Response \/ Body \/ Backoff \/ Teardown \/ Connectivity \/ ToastShows

SpecPersist == InitPersist /\ [][NextPersist]_vars


(* -------------------- claims C11 to C18 (SpecPersist) ------------------ *)

\* the sends whose request is in flight: issued, its response or the body of
\* its response awaited, not cancelled
InFlight ==
  {k \in 1..Len(sends) : sends[k].phase \in {"fetch", "body"} /\ ~sends[k].aborted}

\* C11: at no moment are two persistence requests in flight, and every send
\* but the latest one has had its request cancelled.
C11_OneRequestInFlight ==
  /\ Cardinality(InFlight) <= 1
  /\ \A k \in 1..Len(sends) : k < Len(sends) => sends[k].aborted

\* C11 witness: the third send is in flight after a retry, the first was
\* cancelled in flight and the second while waiting in backoff
C11_Witness ==
  /\ Len(sends) = 3
  /\ InFlight = {3}
  /\ Len(sends[3].reqTs) = 2
  /\ sends[1].result = "aborted" /\ Len(sends[1].failTs) = 0
  /\ sends[2].result = "aborted" /\ Len(sends[2].failTs) = 1


(* ------------------- two immediate saves back-to-back ------------------ *)

\* rest frames delivered before the explored ones, so that the first tick with
\* closed eyes leaves the smoothed score below 0.5 and the tick that raises
\* continuous close also changes the status
QuietSamples == 49

Settle ==
  /\ StartsSettled
  /\ Len(percBufferRef) < QuietSamples
  /\ steps = 0
  /\ UNCHANGED steps
  /\ Tick(RestFrame, 200)

Settled == Len(percBufferRef) >= QuietSamples

\* frames with eyes shut (closed under the default and under the calibrated
\* thresholds: the session started at the mount ends during these frames)
\* until the first send starts
TickBurst ==
  /\ Settled /\ sends = <<>>
  /\ Event
  /\ \E dt \in {200, 500} : Tick(ShutFrame, dt)

DebounceFireSettled == Settled /\ DebounceFire

NextBackToBack ==
  \/ Mount \/ CaptureSettles \/ Settle \/ TickBurst \/ DebounceFireSettled
  \/ Rejection \/ Response \/ Body \/ Backoff \/ ToastShows

SpecBackToBack == InitPersist /\ [][NextBackToBack]_vars

\* sends j and j + 1 were started by the same handler
BackToBack(j) ==
  /\ j + 1 <= Len(sends)
  /\ sends[j].reqTs[1] = sends[j + 1].reqTs[1]
  /\ sends[j].clears /\ sends[j + 1].clears

\* C12: of two immediate saves scheduled back-to-back the request of the first
\* is cancelled, the first is not retried and never reported delivered; the
\* pending snapshot is cleared only by the success of the second.
C12_BackToBackSaves ==
  /\ [](\A j \in 1..Len(sends) :
          BackToBack(j) =>
            /\ sends[j].aborted
            /\ Len(sends[j].reqTs) = 1 /\ sends[j].failTs = <<>>
            /\ sends[j].phase \in {"fetch", "done"}
            /\ sends[j].result \in {"none", "aborted"})
  /\ [][(pendingSaveRef # <<>> /\ pendingSaveRef' = <<>>) =>
          \E k \in 1..Len(sends) :
            /\ ~BackToBack(k)
            /\ sends[k].result = "none" /\ sends'[k].result = "ok"]_vars

\* C12 witness: a tick changed the status and raised continuous close; the
\* first send ended cancelled after one request, the second was retried once,
\* delivered, and its success cleared the pending snapshot
C12_Witness ==
  /\ Len(sends) = 2
  /\ BackToBack(1)
  /\ last.kind = "tick" /\ last.statusChanged /\ last.continuousCloseTriggered
  /\ sends[1].result = "aborted" /\ Len(sends[1].reqTs) = 1
  /\ sends[2].result = "ok" /\ Len(sends[2].reqTs) = 2
  /\ pendingSaveRef = <<>>


\* the sends that are still being sent: in flight or waiting for a retry
BeingSent ==
  {k \in 1..Len(sends) : sends[k].phase \in {"fetch", "body", "wait"} /\ ~sends[k].aborted}

\* C13: the scheduler holds a single snapshot: there is never a state in which
\* one snapshot is being sent while a different snapshot is pending.
C13_SingleSnapshot ==
  \A k \in BeingSent :
    pendingSaveRef # <<>> => pendingSaveRef[1] = sends[k].payload


\* the armed debounce timer fires in this step (it is not cleared by a tick or
\* by the teardown)
DebounceFires ==
  /\ saveTimers # {} /\ saveTimers' = {}
  /\ lastUpdateRef' = lastUpdateRef
  /\ tornDown' = tornDown

\* C14: at most one debounce timer is armed; it fires 5 s after the latest
\* scheduleSave (or later, when the callback runs late), and when it fires
\* (the network being up) exactly one send starts; no send starts at any
\* earlier moment of a run of non-immediate calls.
C14_Debounce ==
  /\ [](Cardinality(saveTimers) <= 1)
  /\ [][DebounceFires =>
          /\ now' >= lastUpdateRef + 5000
          /\ online => /\ Len(sends') = Len(sends) + 1
                       /\ sends'[Len(sends')].reqTs = <<now'>>]_vars


\* the wait before request n + 1 of a send: 300 ms doubled n - 1 times
RECURSIVE WaitBefore(_)
WaitBefore(n) == IF n <= 1 THEN 300 ELSE 2 * WaitBefore(n - 1)

\* the bookkeeping of a send that has not been cancelled
RetryShape(s) ==
  /\ s.attempts <= 3 /\ Len(s.reqTs) <= s.attempts
  /\ s.phase \in {"fetch", "body"} =>
       Len(s.reqTs) = Len(s.failTs) + 1 /\ s.result = "none"
  /\ s.phase = "wait" => Len(s.reqTs) = Len(s.failTs) /\ s.result = "none"
  /\ s.phase = "done" =>
       \/ s.result = "ok" /\ Len(s.reqTs) = Len(s.failTs) + 1
       \/ s.result = "failed" /\ Len(s.failTs) = s.attempts /\ Len(s.reqTs) = s.attempts
  /\ s.phase = "wait" =>
       s.due = s.failTs[Len(s.failTs)] + WaitBefore(Len(s.failTs))
  /\ \A n \in 2..Len(s.reqTs) : s.reqTs[n] - s.failTs[n - 1] >= WaitBefore(n - 1)

\* C15: a send that is not cancelled makes at most 3 requests, stops at the
\* first success, goes on after a non-success response and after a network
\* error, waits 300 ms before the 2nd request and 600 ms before the 3rd (the
\* timer of the wait is set to 300 ms doubled once per failure before it, from
\* the moment the failure is known, and the next request starts when its
\* callback runs, at that time or later), and after the 3rd failure reports
\* failure without a further request.
C15_RetryPolicy ==
  /\ [](\A k \in 1..Len(sends) : ~sends[k].aborted => RetryShape(sends[k]))
  /\ [][\A k \in 1..Len(sends) :
          /\ sends[k].phase = "done" =>
               sends'[k].reqTs = sends[k].reqTs /\ sends'[k].result = sends[k].result
          /\ (sends[k].phase = "wait" /\ sends'[k].phase # "wait" /\ ~sends[k].aborted) =>
               /\ sends[k].how \in {"status", "error"}
               /\ IF Len(sends[k].failTs) < sends[k].attempts
                  THEN sends'[k].phase = "fetch"
                  ELSE sends'[k].result = "failed"]_vars

\* C15 witness: a send that has not been cancelled has its third request in
\* flight; the callback of its first wait ran late, so that the 2nd request
\* started more than 300 ms after the first failure, and the 3rd started
\* 600 ms after the second failure
C15_Witness ==
  \E k \in 1..Len(sends) :
    /\ ~sends[k].aborted /\ sends[k].phase = "fetch"
    /\ Len(sends[k].reqTs) = 3
    /\ sends[k].reqTs[2] > sends[k].failTs[1] + 300
    /\ sends[k].reqTs[3] = sends[k].failTs[2] + 600


\* send k has been superseded: its controller was aborted before it finished
Superseded(k) == sends[k].aborted /\ sends[k].phase # "done"

\* C16: a send that has been superseded, in flight or in backoff, puts no
\* further request in flight, ends in failure and never clears the pending
\* snapshot.
C16_CancelledNotRetried ==
  /\ [](\A k \in 1..Len(sends) : sends[k].result = "aborted" => sends[k].aborted)
  /\ [][/\ \A k \in 1..Len(sends) :
             Superseded(k) =>
               /\ sends'[k].reqTs = sends[k].reqTs
               /\ sends'[k].phase # "fetch" \/ sends[k].phase = "fetch"
               /\ sends'[k].result \in {"none", "aborted", "failed"}
        /\ (pendingSaveRef # <<>> /\ pendingSaveRef' = <<>>) =>
             \E k \in 1..Len(sends) :
               ~sends[k].aborted /\ sends[k].result = "none" /\ sends'[k].result = "ok"]_vars

\* C16 witness: one send was cancelled in flight and one while waiting in
\* backoff; both ended in failure after a single request and the snapshot is
\* still pending
C16_Witness ==
  /\ pendingSaveRef # <<>>
  /\ \E j, k \in 1..Len(sends) :
       /\ sends[j].result = "aborted" /\ sends[j].failTs = <<>> /\ Len(sends[j].reqTs) = 1
       /\ sends[k].result = "aborted" /\ Len(sends[k].failTs) = 1 /\ Len(sends[k].reqTs) = 1


\* a processed tick whose immediate scheduleSave reached sendToServer: the
\* debounce timer of the tick's own non-immediate call has been cleared again
ImmediateSaveTick == lastUpdateRef' # lastUpdateRef /\ saveTimeoutRef' = -1

\* the teardown runs in this step
TeardownRuns == ~tornDown /\ tornDown'

\* C17: when the network is reported offline at the moment a send starts (from
\* a tick's immediate save, from the debounce timer or from the teardown flush)
\* no request is issued, the send schedules no retry and no timer, the sends
\* already under way are left untouched and the snapshot stays pending.
C17_OfflineSkips ==
  [][~online =>
       /\ Len(sends') = Len(sends)
       /\ ImmediateSaveTick =>
            /\ sends' = sends /\ saveTimers' = {}
            /\ pendingSaveRef' # <<>> /\ pendingSaveRef'[1].ts = now'
       /\ DebounceFires =>
            /\ sends' = sends /\ pendingSaveRef' = pendingSaveRef
       /\ TeardownRuns =>
            /\ pendingSaveRef' = pendingSaveRef /\ saveTimers' = {}
            /\ \A k \in 1..Len(sends) :
                 sends'[k] = [sends[k] EXCEPT !.aborted = @ \/ k = saveAbortControllerRef]]_vars

\* C17 witness: the network is offline, a request is in flight, and an
\* immediate save made after that request started was skipped: its snapshot is
\* pending, no timer is armed and no send carries it
C17_Witness ==
  /\ ~online /\ ~tornDown
  /\ saveTimeoutRef = -1 /\ saveTimers = {}
  /\ pendingSaveRef # <<>>
  /\ \E k \in BeingSent : sends[k].phase = "fetch"
  /\ \A k \in 1..Len(sends) : sends[k].payload # pendingSaveRef[1]


\* C18: a teardown with a snapshot pending (network up) issues exactly one
\* request for it, with a single attempt, cancels the debounce timer and does
\* not cancel that request; a teardown with nothing pending issues no request.
C18_TeardownFlush ==
  [][(TeardownRuns /\ online) =>
       /\ saveTimers' = {}
       /\ pendingSaveRef = <<>> => Len(sends') = Len(sends)
       /\ pendingSaveRef # <<>> =>
            /\ Len(sends') = Len(sends) + 1
            /\ sends'[Len(sends')].attempts = 1
            /\ sends'[Len(sends')].reqTs = <<now'>>
            /\ ~sends'[Len(sends')].aborted]_vars


(* --------------------------- calibration sessions ---------------------- *)

\* EAR samples whose means fall on both sides of each max() of stopCalibration
CalibEars == {Rat(15, 100), Rat(25, 100), Rat(30, 100), Rat(32, 100)}

\* a throttled tick, a processed tick, a tick after the session's 10 s
CalibDts == {100, 200, 10000}

TickCalib ==
  /\ Counted
  /\ \E e \in CalibEars, dt \in CalibDts : Tick(EyeFrame(e), dt)

\* the caller of the hook ends the session
StopCalib ==
  /\ Counted
  /\ StopCalibration(200)

NextCalib == Mount \/ CaptureSettles \/ TickCalib \/ BlinkTimerFire \/ Calibrate \/ StopCalib \/ ToastShows

SpecCalib == Init /\ [][NextCalib]_vars

(* ---------------------- claims C19 and C20 (SpecCalib) ----------------- *)

\* max(0.12, 0.6 m) and max(closed + 0.04, 0.75 m) for samples of mean m
ThresholdsFor(samples) ==
  LET m      == RDiv(SumSeq(samples), RInt(Len(samples)))
      closed == IF RLt(RMul(Rat(6, 10), m), Rat(12, 100)) THEN Rat(12, 100)
                ELSE RMul(Rat(6, 10), m)
      open   == IF RLt(RMul(Rat(75, 100), m), RAdd(closed, Rat(4, 100)))
                THEN RAdd(closed, Rat(4, 100))
                ELSE RMul(Rat(75, 100), m)
  IN  <<closed, open>>

\* a calibration session ends in this step
SessionStops == calibratingRef /\ ~calibratingRef'

\* C19: a stop of a session with at least one sample of mean m sets
\* earClosedThreshold = max(0.12, 0.6 m) and earOpenThreshold =
\* max(earClosedThreshold + 0.04, 0.75 m); no other step changes the thresholds.
C19_CalibratedThresholds ==
  /\ []((~calibratingRef /\ calibrationSamplesRef # <<>>) =>
          <<EAR_CLOSED_REF, EAR_OPEN_REF>> = ThresholdsFor(calibrationSamplesRef))
  /\ [][/\ (SessionStops /\ calibrationSamplesRef' # <<>>) =>
             <<EAR_CLOSED_REF', EAR_OPEN_REF'>> = ThresholdsFor(calibrationSamplesRef')
        /\ <<EAR_CLOSED_REF', EAR_OPEN_REF'>> # <<EAR_CLOSED_REF, EAR_OPEN_REF>> =>
             SessionStops /\ calibrationSamplesRef' # <<>>]_vars

\* C19 witness: a session whose samples average 0.30 has been stopped and the
\* thresholds are 0.18 and 0.225
C19_Witness ==
  /\ ~calibratingRef
  /\ calibrationSamplesRef # <<>>
  /\ RDiv(SumSeq(calibrationSamplesRef), RInt(Len(calibrationSamplesRef))) = Rat(30, 100)
  /\ EAR_CLOSED_REF = Rat(18, 100)
  /\ EAR_OPEN_REF = Rat(225, 1000)

\* C20: a stop of a session that collected no sample leaves both thresholds as
\* they were, marks the session inactive and sets the progress to 1.
C20_ZeroSampleStop ==
  [][(SessionStops /\ calibrationSamplesRef = <<>> /\ lastUpdateRef' = lastUpdateRef) =>
       /\ EAR_CLOSED_REF' = EAR_CLOSED_REF
       /\ EAR_OPEN_REF' = EAR_OPEN_REF
       /\ ~calibratingRef' /\ calibrationStartTsRef' = -1
       /\ calibrationSamplesRef' = <<>>
       /\ calibrationProgress' = RInt(1)]_vars

\* C20 witness: a session without samples was stopped after an earlier session
\* had moved the thresholds away from their defaults
C20_Witness ==
  /\ ~calibratingRef
  /\ calibrationSamplesRef = <<>>
  /\ calibrationProgress = RInt(1)
  /\ EAR_CLOSED_REF # EAR_CLOSED_DEFAULT
  /\ EAR_OPEN_REF # EAR_OPEN_DEFAULT


\* C21: while a session is active every processed tick appends exactly the
\* EAR of its frame; the first processed tick at which 10 s or more have
\* elapsed since startCalibration stops the session (thresholds derived from
\* the samples, progress 1), an earlier tick does not; without an active
\* session no step appends a sample.
C21_CalibrationAutoStop ==
  [][/\ (ProcessedTick /\ calibratingRef) =>
          /\ calibrationSamplesRef' = Append(calibrationSamplesRef, FrameEar)
          /\ IF now' - calibrationStartTsRef >= 10000
             THEN /\ ~calibratingRef'
                  /\ <<EAR_CLOSED_REF', EAR_OPEN_REF'>> = ThresholdsFor(calibrationSamplesRef')
                  /\ calibrationProgress' = RInt(1)
             ELSE /\ calibratingRef'
                  /\ calibrationStartTsRef' = calibrationStartTsRef
     /\ ~(ProcessedTick /\ calibratingRef) =>
          \/ calibrationSamplesRef' = calibrationSamplesRef
          \/ calibrationSamplesRef' = <<>> /\ calibratingRef' /\ calibrationStartTsRef' = now']_vars

\* C21 witness: a tick has just ended a session that collected two or more
\* samples, the last of them from that tick
C21_Witness ==
  /\ last.kind = "tick" /\ last.nowTs = now
  /\ ~calibratingRef /\ calibrationStartTsRef = -1
  /\ Len(calibrationSamplesRef) >= 2
  /\ calibrationSamplesRef[Len(calibrationSamplesRef)] = last.EAR
  /\ calibrationProgress = RInt(1)
  /\ <<EAR_CLOSED_REF, EAR_OPEN_REF>> = <<last.EAR_CLOSED, last.EAR_OPEN>>
  /\ EAR_CLOSED_REF # EAR_CLOSED_DEFAULT


(* ------------------------- the silence detector ------------------------ *)

\* animation frames 100 ms (within the sampling interval) and 2500 ms apart
SampleDts == {100, 2500}

\* an event after the mount, once the auto-start of the capture was answered
SilenceEvent == AutoSettled /\ steps < MaxEvents /\ steps' = steps + 1

\* a sample of a silent buffer (low-band percentage 0) or of a sounding one
\* (low-band percentage 30)
SampleSound ==
  /\ SilenceEvent
  /\ \E b \in BOOLEAN, dt \in SampleDts : SampleAudio(b, IF b THEN 0 ELSE 30, dt)

\* an animation frame whose buffer cannot be read
SampleFails ==
  /\ SilenceEvent
  /\ \E dt \in SampleDts : SampleAudioThrows(dt)

MicButton ==
  /\ SilenceEvent
  /\ MicToggle(200)

\* the device answers a pending call of the mount effect or of the mic
\* button, with a running or a suspended context
AnswerSilence ==
  /\ SilenceEvent
  /\ \E i \in DOMAIN pendingStarts, suspended \in BOOLEAN : StartResumes(i, suspended, 200)

\* a suspended context has been resumed
ResumeSilence ==
  /\ SilenceEvent
  /\ \E i \in DOMAIN pendingStarts : ResumeSettles(i, 200)

NextSilence ==
  \/ Mount \/ AutoSettles \/ SampleSound \/ SampleFails \/ MicButton
  \/ AnswerSilence \/ ResumeSilence \/ ToastShows

SpecSilence == Init /\ [][NextSilence]_vars

(* ------------------------- claim C22 (SpecSilence) --------------------- *)

\* the samples from index i on are all silent and span at least 5 s
SilentSince(log, i) ==
  /\ \A j \in i..Len(log) : log[j].silent
  /\ log[Len(log)].t - log[i].t >= 5000

\* a step in which sampleAudio took a sample
SampleTaken == last' # last /\ last'.kind = "sample"

\* C22: isSilent becomes true only at a sample at which the silent condition
\* has held on every sample of the last 5 s or more, and one non-silent sample
\* clears it at once, so that the 5 s are counted again from the next silent
\* sample.
C22_SilenceDebounce ==
  [][/\ (~isSilent /\ isSilent') =>
          /\ SampleTaken
          /\ \E i \in 1..Len(last'.log) : SilentSince(last'.log, i)
     /\ (SampleTaken /\ ~last'.log[Len(last'.log)].silent) => ~isSilent']_vars


(* ------------------------- the periodicity test ------------------------ *)

\* the most accepted peaks in an envelope explored
MaxPeaks == 4

\* inter-peak intervals around the limits of the mean (200, 2000) and, in
\* pairs, of the standard deviation (500 and 1500: 500; 500 and 1502: 501)
PeakIntervals == {190, 210, 480, 500, 520, 1500, 1502, 2010}

RECURSIVE PeakLists(_)
\* the peak time lists with n peaks, the first at 0
PeakLists(n) ==
  IF n = 0 THEN {<<>>}
  ELSE IF n = 1 THEN {<<0>>}
  ELSE {Append(p, p[Len(p)] + d) : p \in PeakLists(n - 1), d \in PeakIntervals}

\* a face at rest and a quiet low band over an envelope with the given peaks
PeakFrame(p) ==
  [RestFrame EXCEPT !.snd = [envLen |-> 20, peakTimes |-> p,
                             bandLow |-> RInt(0), volume |-> Rat(1, 2),
                             silent |-> FALSE]]

\* the first frame of the detector
TickPeaks ==
  /\ landmarksData = <<>>
  /\ Counted
  /\ \E n \in 0..MaxPeaks : \E p \in PeakLists(n) : Tick(PeakFrame(p), 200)

NextPeriodicity == Mount \/ CaptureSettles \/ TickPeaks \/ ToastShows

SpecPeriodicity == Init /\ [][NextPeriodicity]_vars

(* ----------------------- claim C23 (SpecPeriodicity) ------------------- *)

RECURSIVE SumInts(_)
SumInts(s) == IF s = <<>> THEN 0 ELSE s[1] + SumInts(Tail(s))

\* at least 3 peaks, interval standard deviation <= 500 (n * sum of squares -
\* square of sum <= 500^2 * n^2) and interval mean within [200, 2000]
PeriodicAsClaimed(p) ==
  LET iv == [i \in 1..(Len(p) - 1) |-> p[i + 1] - p[i]]
      n  == Len(iv)
      sq == [i \in 1..n |-> iv[i] * iv[i]]
  IN  /\ Len(p) >= 3
      /\ n * SumInts(sq) - SumInts(iv) * SumInts(iv) <= 250000 * n * n
      /\ 200 * n <= SumInts(iv)
      /\ SumInts(iv) <= 2000 * n

\* C23: the accepted peaks of the envelope are classified periodic (and, the
\* low band being quiet, the tick warns of a sound) iff there are at least 3
\* of them, the standard deviation of their intervals is <= 500 ms and the
\* mean of the intervals is within [200 ms, 2000 ms].
C23_Periodicity ==
  [][ProcessedTick =>
       /\ soundWarning' = PeriodicAsClaimed(Heard(landmarksData'[1]).snd.peakTimes)
       /\ Len(landmarksData'[1].snd.peakTimes) < 3 => ~soundWarning']_vars

\* C23 witness: 4 peaks at intervals 500, 520 and 480 ms were classified periodic
C23_Witness ==
  /\ landmarksData # <<>>
  /\ landmarksData[1].snd.peakTimes = <<0, 500, 1020, 1500>>
  /\ soundWarning


(* ---------------------- frames with missing landmarks ------------------ *)

\* landmark counts short of the right eye (0, 47) and short of the mouth (48, 67)
ShortPoints == {0, 47, 48, 67}

ShortDts == {100, 200}

TickWhole ==
  /\ Counted
  /\ \E f \in {RestFrame, ClosedFrame}, dt \in ShortDts : Tick(f, dt)

TickMissing ==
  /\ Counted
  /\ \E n \in ShortPoints, dt \in ShortDts :
       TickShort([ClosedFrame EXCEPT !.points = n], dt)

NextShort == Mount \/ CaptureSettles \/ TickWhole \/ TickMissing \/ BlinkTimerFire \/ Calibrate \/ ToastShows

SpecShort == Init /\ [][NextShort]_vars

(* -------------------------- claim C24 (SpecShort) ---------------------- *)

\* the tick effect is triggered in this step by a frame with fewer than 68 points
ShortFrameDelivered ==
  /\ last' # last
  /\ landmarksData' # <<>>
  /\ landmarksData'[1].points < 68

\* C24: a tick on a frame with fewer than 68 landmark points is skipped: no
\* error is raised, the component stays mounted and no engine state or
\* published value changes.
C24_ShortFrameSkipped ==
  [][ShortFrameDelivered =>
       /\ ~thrown' /\ mounted'
       /\ UNCHANGED <<eyeRefs, calibRefs, fusionRefs, saveRefs, blinkTimers, published>>]_vars


(* ----------------------------- the mic control ------------------------- *)

\* the state after construction; the browser will grant or refuse the capture
InitMic ==
  /\ InitEngine(MAX_LOGS, "")
  /\ micPermission \in BOOLEAN

MicFrames == {RestFrame, SnoreFrame, HumFrame}

\* the number of events explored after the mount
MaxMicEvents == 6

MicEvent == steps < MaxMicEvents /\ steps' = steps + 1

TickMic ==
  /\ MicEvent
  /\ \E f \in MicFrames : Tick(f, 200)

MicControl ==
  /\ MicEvent
  /\ MicToggle(200)

\* the device answers a pending call of either instance, with a running or a
\* suspended context
MicAnswers ==
  /\ MicEvent
  /\ \E i \in DOMAIN pendingStarts, suspended \in BOOLEAN :
       StartResumes(i, suspended, 100) \/ OwnStartResumes(i, suspended, 100)

\* a suspended context of either instance has been resumed
MicResumes ==
  /\ MicEvent
  /\ \E i \in DOMAIN pendingStarts : ResumeSettles(i, 100) \/ OwnResumeSettles(i, 100)

NextMic == Mount \/ TickMic \/ MicControl \/ MicAnswers \/ MicResumes \/ ToastShows

SpecMic == InitMic /\ [][NextMic]_vars

(* --------------------------- claim C25 (SpecMic) ----------------------- *)

\* C25: while the mic is off (stopped with the mic control, or the capture was
\* refused) and no start of the dashboard's capture is under way, the sound
\* component of every processed tick is 0 and soundWarning is false.
C25_AudioDisabled ==
  [][(/\ ProcessedTick
      /\ ~micOn
      /\ \A i \in DOMAIN pendingStarts : pendingStarts[i].caller = "own") =>
       /\ last'.soundComponent = RInt(0)
       /\ ~soundWarning']_vars


(* -------------------------- claim C26 (SpecFusion) --------------------- *)

\* C26: on every processed tick with raw score r the smoothed score s moves to
\* s' with |s' - r| = 0.4 * |s - r|: the distance to r shrinks by the same
\* factor on each repetition of r, and s = r is left unchanged.
C26_EmaConvergence ==
  [][ProcessedTick =>
       LET r == last'.newScoreUnsmoothed
       IN  /\ RAbs(RSub(emaRef', r)) = RMul(Rat(4, 10), RAbs(RSub(emaRef, r)))
           /\ RLe(RAbs(RSub(emaRef', r)), RAbs(RSub(emaRef, r)))
           /\ emaRef = r => emaRef' = r]_vars

\* C26 witness: a tick has moved a score that was already off zero towards a
\* different raw score
C26_Witness ==
  /\ last.kind = "tick"
  /\ last.prevEma # RInt(0)
  /\ last.prevEma # last.newScoreUnsmoothed
  /\ emaRef = last.ema
  /\ RLt(RAbs(RSub(last.ema, last.newScoreUnsmoothed)),
         RAbs(RSub(last.prevEma, last.newScoreUnsmoothed)))


(* ---------------------- claims C27 to C30 (persistence) ---------------- *)

\* C27: the snapshot stored by the scheduleSave calls of a tick carries the
\* score, the EAR and the emotion produced by that tick, and so does the record
\* sent at once on a status change.
C27_SnapshotFresh ==
  [][(ProcessedTick /\ pendingSaveRef' # <<>>) =>
       /\ pendingSaveRef'[1].drowsiness = drowsyScore'
       /\ pendingSaveRef'[1].eyeAspectRatio = ear'
       /\ pendingSaveRef'[1].emotion = dominantEmotion'
       /\ (last'.statusChanged /\ online) =>
            sends'[Len(sends')].payload.drowsiness = drowsyScore']_vars


(* ------------ runs of the tick effect caused by the sound values -------- *)

\* the values of the hook's own sound instance the tick effect depends on
\* (line 566) differ between two sound records; the envelope is a ref and no
\* dependency
SoundDepsChanged(a, b) ==
  a.bandLow # b.bandLow \/ a.volume # b.volume \/ a.silent # b.silent

\* the sampler of the hook's own sound instance runs dt ms after the latest
\* event and leaves the sound values snd.  When bandEnergyLow, volume or
\* isSilent changed, the component renders again with the landmarks of the
\* latest detection and the tick effect, which lists them among its
\* dependencies, runs again on them; the frame record of the model keeps the
\* landmarks and takes the new sound values.  When only the envelope grew, no
\* state changed and nothing runs.
AudioChange(snd, dt) ==
  /\ mounted /\ ownIsRunning
  /\ landmarksData # <<>>
  /\ snd # landmarksData[1].snd
  /\ now' = now + dt
  /\ landmarksData' = <<[landmarksData[1] EXCEPT !.snd = snd]>>
  /\ UNCHANGED <<maxPoints, driverId, tornDown, online, mounted, demoMode, alertAudioRef,
                 soundVars, thrown>>
  /\ IF SoundDepsChanged(snd, landmarksData[1].snd)
     THEN /\ effectCause' = "audio"
          /\ IF now' - lastUpdateRef < UPDATE_MS THEN TickSkipped(now')
             ELSE TickEffect(landmarksData'[1], now')
          /\ AlertEffects(FALSE)
     ELSE UNCHANGED <<effectCause, eyeRefs, calibRefs, fusionRefs, saveRefs,
                      blinkTimers, published, dashRefs, last>>

\* digital silence for 5 s: isSilent of the own instance is true
SilentSound == [envLen |-> 20, peakTimes |-> <<>>,
                bandLow |-> RInt(0), volume |-> RInt(0), silent |-> TRUE]

\* the sound values the sampler leaves between two detections; the second and
\* the third differ in the envelope only
AudioSounds == {NoSound, HumFrame.snd, SnoreFrame.snd, SilentSound}

\* the sampler publishes every 200 ms; a detection may take longer than that
AudioDts == {100, 200}

AudioFrames == {RestFrame, ClosedFrame}

TickAudio ==
  /\ Counted
  /\ \E f \in AudioFrames, dt \in AudioDts : Tick(f, dt)

AudioRerun ==
  /\ Counted
  /\ \E snd \in AudioSounds, dt \in AudioDts : AudioChange(snd, dt)

NextAudio == Mount \/ CaptureSettles \/ TickAudio \/ AudioRerun \/ BlinkTimerFire \/ ToastShows

SpecAudio == Init /\ [][NextAudio]_vars

\* C28: a run of the tick effect caused by a changed sound value, with no new
\* detection, appends no closure sample, leaves the eye state machine and its
\* continuous-close timer alone and does not update the fusion score.
C28_OneTickPerFrame ==
  [][effectCause' = "audio" =>
       UNCHANGED <<percBufferRef, lastEyeStateRef, prevEyesClosed, emaRef>>]_vars


(* --------------- a sustained closure in front of a slow sink ------------ *)

\* the sink answers every request with success, this long after the request
SinkDelay == 300

\* the number of events explored after the mount
MaxClosureEvents == 10

ClosureFrames == {RestFrame, ClosedFrame}

\* the time at which the request in flight of send k is answered
AnswerDue(k) == sends[k].reqTs[Len(sends[k].reqTs)] + SinkDelay

ClosureEvent ==
  Idle /\ StartsSettled /\ steps < MaxClosureEvents /\ steps' = steps + 1

\* the detector delivers a frame every 200 ms
FrameDue == IF lastUpdateRef < Epoch THEN now + 200 ELSE lastUpdateRef + 200

\* the next frame arrives, unless a response is due before it
TickClosure ==
  /\ ClosureEvent
  /\ \A k \in InFlight : AnswerDue(k) >= FrameDue
  /\ \E f \in ClosureFrames : Tick(f, FrameDue - now)

\* the response of the sink to the request in flight, unless the next frame
\* is due before it
SinkAnswers ==
  /\ ClosureEvent
  /\ \E k \in InFlight :
       /\ AnswerDue(k) <= FrameDue
       /\ FetchOk(k, AnswerDue(k) - now)

\* the debounce timer is re-armed 5 s ahead by every tick and never comes due
\* between two frames
NextClosure == Mount \/ CaptureSettles \/ TickClosure \/ SinkAnswers \/ Rejection \/ BlinkFlagFire \/ ToastShows

SpecClosure == InitPersist /\ [][NextClosure]_vars

\* the eyes have been closed without interruption for ms milliseconds or more
ClosedFor(ms) ==
  lastEyeStateRef.closed /\ now - lastEyeStateRef.lastChangeTs >= ms

\* the records delivered since the eyes closed
DeliveredInClosure ==
  {k \in 1..Len(sends) : /\ sends[k].result = "ok"
                         /\ sends[k].reqTs[1] >= lastEyeStateRef.lastChangeTs}

\* C29: with driverId set, the network online and a sink that answers every
\* request with success after SinkDelay, a closure that has triggered the
\* per-tick immediate saves for two sink delays has had a record delivered.
C29_ClosureDelivers ==
  ClosedFor(CONTINUOUS_CLOSE_MS_ALERT + 2 * SinkDelay) => DeliveredInClosure # {}


\* C30: a pending snapshot is cleared only by the success of a send of that
\* same snapshot; the success of a send of an older snapshot leaves a newer
\* pending snapshot in place.
C30_NoSnapshotLost ==
  [][(pendingSaveRef # <<>> /\ pendingSaveRef' = <<>>) =>
       \E k \in 1..Len(sends) :
         /\ sends[k].result # "ok" /\ sends'[k].result = "ok"
         /\ sends[k].payload = pendingSaveRef[1]]_vars


(* ----------------------- claims C31 to C40 ----------------------------- *)

\* C31: on every processed tick on which continuous-close is triggered, the
\* smoothed score computed by the tick is above 0.5 and the status it sets is
\* DROWSY.
C31_ContinuousCloseDrowsy ==
  [][(ProcessedTick /\ last'.continuousCloseTriggered) =>
       /\ RLt(Rat(1, 2), emaRef')
       /\ last'.isDrowsy
       /\ status' = "DROWSY"]_vars

C31_Witness ==
  /\ last.kind = "tick" /\ last.continuousCloseTriggered
  /\ emaRef = last.ema /\ RLt(Rat(1, 2), last.ema)
  /\ status = "DROWSY"


\* C32: within one closed period the continuous-close trigger, once set, stays
\* set on every later tick of the period; a period on whose latest tick it was
\* set is not counted as a blink when it ends, and a period counted as a blink
\* had it clear on every tick.
C32_BlinkOrContinuousClose ==
  [][ProcessedTick =>
       /\ (lastEyeStateRef.closed /\ continuousClose /\ last'.eyesCurrentlyClosed)
            => last'.continuousCloseTriggered
       /\ (lastEyeStateRef.closed /\ continuousClose /\ ~last'.eyesCurrentlyClosed)
            => (~last'.blink /\ longBlinkCountRef' = longBlinkCountRef)
       /\ last'.blink =>
            /\ ~continuousClose
            /\ \A i \in DOMAIN percBufferRef :
                 percBufferRef[i].ts >= lastEyeStateRef.lastChangeTs =>
                   percBufferRef[i].ts - lastEyeStateRef.lastChangeTs
                     < CONTINUOUS_CLOSE_MS_ALERT]_vars

\* a closed period has ended uncounted after a tick of it, 500 ms or more into
\* the period, had triggered continuous-close
C32_Witness ==
  /\ last.kind = "tick" /\ last.transition /\ last.wasClosed /\ ~last.blink
  /\ \E i \in DOMAIN percBufferRef :
       /\ percBufferRef[i].closed = 1
       /\ percBufferRef[i].ts - (last.nowTs - last.durationMs) >= CONTINUOUS_CLOSE_MS_ALERT


(* ------- start() and stop() of the dashboard's sound instance, with ----- *)
(* ------- the waits for the capture device and for the audio context ----- *)

\* the number of events explored after the mount
MaxCaptureEvents == 6

CaptureEvent == steps < MaxCaptureEvents /\ steps' = steps + 1

\* the device answers a pending call of either instance, with a running or a
\* suspended context
DeviceAnswers ==
  /\ CaptureEvent
  /\ \E i \in DOMAIN pendingStarts, suspended \in BOOLEAN :
       StartResumes(i, suspended, 100) \/ OwnStartResumes(i, suspended, 100)

\* a suspended context of either instance has been resumed
ContextResumes ==
  /\ CaptureEvent
  /\ \E i \in DOMAIN pendingStarts : ResumeSettles(i, 100) \/ OwnResumeSettles(i, 100)

MicClick ==
  /\ CaptureEvent
  /\ MicToggle(100)

\* a sample of a sounding buffer with a low-band percentage of 30
SampleCapture ==
  /\ CaptureEvent
  /\ SampleAudio(FALSE, 30, 200)

TeardownCapture ==
  /\ CaptureEvent
  /\ Unmount(100)

NextCapture ==
  \/ Mount \/ DeviceAnswers \/ ContextResumes \/ MicClick \/ SampleCapture
  \/ TeardownCapture \/ ToastShows

SpecCapture == InitMic /\ [][NextCapture]_vars

\* C33: overlapping calls of start() leave at most one capture stream and one
\* audio context open, and every open stream and context is the one the refs
\* hold, which the next stop() releases.
C33_SingleCapture ==
  /\ Cardinality(liveStreams) <= 1
  /\ Cardinality(liveContexts) <= 1
  /\ liveStreams \subseteq {mediaStreamRef}
  /\ liveContexts \subseteq {audioContextRef}

\* C34: a start() of the dashboard's instance that resumes after stop() or the
\* teardown has run leaves the analyzer stopped: not running, no stream, no
\* context, no analyser to sample.
C34_StopWins ==
  [][(/\ \/ Len(pendingStarts') < Len(pendingStarts)
         \/ /\ Len(pendingStarts') = Len(pendingStarts)
            /\ \E i \in DOMAIN pendingStarts :
                 pendingStarts[i].phase = "device" /\ pendingStarts'[i].phase = "resume"
      /\ last'.kind \in {"start", "device"}
      /\ last'.caller \in DashCallers
      /\ last'.stopped) =>
       /\ ~isRunning'
       /\ mediaStreamRef' = 0 /\ audioContextRef' = 0
       /\ liveStreams' = liveStreams /\ liveContexts' = liveContexts
       /\ ~analyserRef']_vars


\* C35: in every state the open threshold is at least the closed threshold
\* plus 0.04, hence above it, and the closed threshold is at least 0.12
\* (the default 0.26 before any calibration, max(0.12, ...) after one).
C35_ThresholdOrdering ==
  /\ RLe(RAdd(EAR_CLOSED_REF, Rat(4, 100)), EAR_OPEN_REF)
  /\ RLt(EAR_CLOSED_REF, EAR_OPEN_REF)
  /\ RLe(Rat(12, 100), EAR_CLOSED_REF)

\* C35 witness: a stopped session of low samples has put the closed threshold
\* on its floor 0.12 and the open threshold exactly 0.04 above it
C35_Witness ==
  /\ ~calibratingRef
  /\ calibrationSamplesRef # <<>>
  /\ EAR_CLOSED_REF = Rat(12, 100)
  /\ EAR_OPEN_REF = Rat(16, 100)


(* ------------------- triggers closer than UPDATE_MS -------------------- *)

\* triggers just inside and just outside the minimum interval
ThrottleDts == {60, 179, 180, 200}

ThrottleFrames == {RestFrame, ClosedFrame}

TickThrottle ==
  /\ Idle /\ Counted
  /\ \E f \in ThrottleFrames, dt \in ThrottleDts : Tick(f, dt)

AudioThrottle ==
  /\ Idle /\ Counted
  /\ \E dt \in ThrottleDts : AudioChange(HumFrame.snd, dt)

NextThrottle ==
  \/ Mount \/ CaptureSettles \/ TickThrottle \/ AudioThrottle \/ Rejection
  \/ BlinkFlagFire \/ ToastShows

SpecThrottle == InitPersist /\ [][NextThrottle]_vars

\* a step in which the tick effect was triggered, by a frame or a sound value
Triggered == last' # last /\ last'.kind \in {"tick", "skip"}

\* C36: two processed ticks are at least 180 ms apart, and a trigger less than
\* 180 ms after the last processed tick changes nothing of the engine: no
\* ref, no timer, no save, no published value.
C36_MinimumInterval ==
  [][/\ ProcessedTick =>
          /\ Triggered /\ lastUpdateRef' = now'
          /\ lastUpdateRef' - lastUpdateRef >= UPDATE_MS
     /\ (Triggered /\ now' - lastUpdateRef < UPDATE_MS) =>
          /\ last'.kind = "skip"
          /\ UNCHANGED <<eyeRefs, calibRefs, fusionRefs, saveRefs, blinkTimers,
                         published>>
     /\ (Triggered /\ now' - lastUpdateRef >= UPDATE_MS) => ProcessedTick]_vars

\* C36 witness: with a snapshot pending from a processed tick, a trigger 179 ms
\* after it has been skipped
C36_Witness ==
  /\ last.kind = "skip"
  /\ last.nowTs - lastUpdateRef = 179
  /\ pendingSaveRef # <<>>
  /\ percBufferRef # <<>>


\* a setBlinkDetected(false) timer fires in this step
BlinkTimerFires == blinkTimers' # blinkTimers /\ blinkTimers' \subseteq blinkTimers

\* the eyes close in this step
EyesClose == ProcessedTick /\ last'.transition /\ last'.eyesCurrentlyClosed

\* C37: the blink flag is raised only by a tick that counts a blink, which
\* starts its clear timer 300 ms ahead; a raised flag is lowered only by the
\* eyes closing or by the timer of the blink that raised it, never by the
\* timer of an earlier blink.
C37_BlinkIndicator ==
  /\ [](blinkDetected => blinkTimers # {})
  /\ [][/\ (~blinkDetected /\ blinkDetected') =>
             /\ ProcessedTick /\ last'.blink
             /\ longBlinkCountRef' = longBlinkCountRef + 1
             /\ now' + BLINK_FLAG_MS \in blinkTimers'
        /\ (ProcessedTick /\ last'.blink) => blinkDetected'
        /\ (blinkDetected /\ ~blinkDetected') =>
             \/ BlinkTimerFires /\ blinkTimers' = {}
             \/ EyesClose
        /\ (blinkDetected /\ (BlinkTimerFires \/ EyesClose)) => ~blinkDetected']_vars


\* startCalibration runs in this step
SessionStarts ==
  /\ ~ProcessedTick
  /\ calibratingRef'
  /\ calibrationStartTsRef' # calibrationStartTsRef

\* the processed ticks since time t, as the closure buffer recorded them
TicksSince(t) == {i \in DOMAIN percBufferRef : percBufferRef[i].ts >= t}

\* C38: startCalibration empties the accumulator and restarts the clock, so
\* an active session holds one sample per processed tick since the latest
\* start and nothing older; a tick ends the session only 10 s or more after
\* that start, and the thresholds of a stop are those of these samples.
C38_StartResets ==
  /\ [](calibratingRef =>
          /\ calibrationStartTsRef <= now
          /\ Len(calibrationSamplesRef) = Cardinality(TicksSince(calibrationStartTsRef)))
  /\ [][/\ SessionStarts =>
             /\ calibrationSamplesRef' = <<>>
             /\ calibrationStartTsRef' = now'
             /\ calibrationProgress' = RInt(0)
             /\ UNCHANGED <<EAR_CLOSED_REF, EAR_OPEN_REF>>
        /\ (ProcessedTick /\ calibratingRef /\ ~calibratingRef') =>
             /\ now' - calibrationStartTsRef >= calibrationDurationMs
             /\ Len(calibrationSamplesRef') = Cardinality(TicksSince(calibrationStartTsRef)) + 1
             /\ <<EAR_CLOSED_REF', EAR_OPEN_REF'>> = ThresholdsFor(calibrationSamplesRef')
        /\ (~ProcessedTick /\ SessionStops /\ calibrationSamplesRef # <<>>) =>
             /\ Len(calibrationSamplesRef) = Cardinality(TicksSince(calibrationStartTsRef))
             /\ <<EAR_CLOSED_REF', EAR_OPEN_REF'>> = ThresholdsFor(calibrationSamplesRef)]_vars

\* C38 witness: two ticks 10.2 s apart, the first on closed eyes, and a session
\* started between them has ended on the second with the thresholds of its
\* single sample 0.32
C38_Witness ==
  /\ ~calibratingRef
  /\ Len(percBufferRef) = 2
  /\ percBufferRef[1].closed = 1
  /\ percBufferRef[2].ts - percBufferRef[1].ts = 10200
  /\ calibrationSamplesRef = <<Rat(32, 100)>>
  /\ EAR_CLOSED_REF = Rat(192, 1000)
  /\ EAR_OPEN_REF = Rat(24, 100)


(* ------------------------- claim C39 (SpecFusion) ---------------------- *)

\* C39: the sound warning rises, and the snore alert fires, only on a
\* processed tick whose envelope holds at least 8 samples and passes the
\* periodicity test; a loud low band alone never raises them.
C39_SnoreOnlyWhenPeriodic ==
  [][((~soundWarning /\ soundWarning') \/ FiredIn("snore")) =>
       /\ ProcessedTick
       /\ Heard(landmarksData'[1]).snd.envLen >= MIN_ENVELOPE
       /\ EvaluatePeriodicity(Heard(landmarksData'[1]).snd.peakTimes)]_vars


(* --------------------------- the envelope buffer ----------------------- *)

\* the rounded low-band percentage the analyser shows at time t
EnvAt(t) == ((t \div 100) % 7) * 10

\* the first samples of a capture, one every 200 ms, up to one entry short of
\* a full buffer
EnvelopeFill ==
  /\ AutoSettled
  /\ steps = 0
  /\ Len(envelopeBufferRef) < MAX_ENV - 1
  /\ UNCHANGED steps
  /\ SampleAudio(FALSE, EnvAt(now + 200), 200)

\* the number of events explored after the first samples
MaxEnvelopeEvents == 5

EnvelopeEvent ==
  /\ AutoSettled
  /\ analyserRef => Len(envelopeBufferRef) >= MAX_ENV - 1 \/ steps > 0
  /\ steps < MaxEnvelopeEvents
  /\ steps' = steps + 1

\* animation frames 100 ms (within the sampling interval) and 200 ms apart
SampleEnvelope ==
  /\ EnvelopeEvent
  /\ \E dt \in {100, 200} : SampleAudio(FALSE, EnvAt(now + dt), dt)

\* an animation frame whose buffer cannot be read
SampleEnvelopeFails ==
  /\ EnvelopeEvent
  /\ SampleAudioThrows(200)

MicEnvelope ==
  /\ EnvelopeEvent
  /\ MicToggle(200)

TeardownEnvelope ==
  /\ EnvelopeEvent
  /\ Unmount(200)

\* the device answers a pending call of the mount effect or of the mic
\* button, with a running or a suspended context
AnswerEnvelope ==
  /\ EnvelopeEvent
  /\ \E i \in DOMAIN pendingStarts, suspended \in BOOLEAN : StartResumes(i, suspended, 200)

\* a suspended context has been resumed
ResumeEnvelope ==
  /\ EnvelopeEvent
  /\ \E i \in DOMAIN pendingStarts : ResumeSettles(i, 200)

NextEnvelope ==
  \/ Mount \/ AutoSettles \/ EnvelopeFill \/ SampleEnvelope \/ SampleEnvelopeFails
  \/ MicEnvelope \/ TeardownEnvelope \/ AnswerEnvelope \/ ResumeEnvelope \/ ToastShows

SpecEnvelope == InitMic /\ [][NextEnvelope]_vars

(* ------------------------ claim C40 (SpecEnvelope) --------------------- *)

\* C40: the envelope values and their timestamps have the same length, at
\* most 512, entry i of one belongs to entry i of the other, both are empty
\* after start() and stop(), and a sample appends its pair at the end and
\* evicts exactly the oldest pair when the buffer was full.
C40_EnvelopeRing ==
  /\ [](/\ Len(envelopeBufferRef) = Len(envelopeTimeRef)
        /\ Len(envelopeBufferRef) <= MAX_ENV
        /\ \A i \in DOMAIN envelopeBufferRef :
             envelopeBufferRef[i] = EnvAt(envelopeTimeRef[i]))
  /\ [][/\ (\/ analyserRef' # analyserRef
            \/ last' # last /\ last'.kind = "start" /\ last'.granted) =>
             envelopeBufferRef' = <<>> /\ envelopeTimeRef' = <<>>
        /\ (last' # last /\ last'.kind = "sample") =>
             LET n    == Len(envelopeBufferRef)
                 drop == IF n = MAX_ENV THEN 1 ELSE 0
             IN  /\ Len(envelopeBufferRef') = n + 1 - drop
                 /\ envelopeBufferRef'[n + 1 - drop] = EnvAt(now')
                 /\ envelopeTimeRef'[n + 1 - drop] = now'
                 /\ \A i \in 1..(n - drop) :
                      /\ envelopeBufferRef'[i] = envelopeBufferRef[i + drop]
                      /\ envelopeTimeRef'[i] = envelopeTimeRef[i + drop]]_vars

\* C40 witness: a full buffer that has evicted its oldest pair
C40_Witness ==
  /\ Len(envelopeBufferRef) = MAX_ENV
  /\ last.kind = "sample"
  /\ Len(last.log) > MAX_ENV
  /\ envelopeTimeRef[1] = Epoch + last.log[Len(last.log) - MAX_ENV + 1].t

====
